---- MODULE Spec2Model ----
(***************************************************************************)
(* A model of service-io's engine (src/src/engine.rs): one input           *)
(* connector, n services and one output connector, each a tokio task,     *)
(* joined by bounded tokio mpsc channels, and the dispatch loop of         *)
(* Engine::run() that routes every input message to a service by name.     *)
(*                                                                         *)
(* Tasks: the dispatch loop (Engine::run), the input connector             *)
(* (connectors/mpsc.rs, impl InputConnector for mpsc::Receiver), the       *)
(* output connector (connectors/mpsc.rs, impl OutputConnector for          *)
(* mpsc::Sender) with its supervisor (Engine::load_output), and one        *)
(* worker per registered service (services/echo.rs Echo, and the test      *)
(* service EchoOnce of engine.rs).  A channel endpoint lives as long as    *)
(* the task that owns it: a sender or receiver is dropped when its task    *)
(* returns or panics.                                                      *)
(***************************************************************************)
EXTENDS Integers, Sequences, FiniteSets, TLC

\* ------------------------------------------------------------- bounds

\* mpsc::channel(32) in the source; the model scales the capacity down.  Every
\* queue of the engine (input, output, per service) has this one capacity.
Capacity == 1

\* How many messages the external producer hands to the input connector in a
\* scenario with mixed messages.
MaxMsgs == 2

\* A flood of identical requests long enough to fill every queue of the
\* pipeline of one service: three queues, the dispatch loop, the worker, the
\* sink and one more that finds the input queue full.
FloodMsgs == 3 * Capacity + 4

\* The longest service_name the first-character mapping is applied to, and how
\* many times in a row it is applied.
MaxNameLen == 2
MaxApplications == 2

\* How many lines standard input holds before its end.
MaxLines == 2

\* How many items the mailbox holds, and how many times the mail servers fail
\* a request of a connector.
MaxMail == 2
MaxFailures == 2

\* The tasks that share one SecretHandler, and the access tokens the
\* authorization server issues in a run.
MaxHandles == 2
MaxTokens == 3

\* ------------------------------------------------------------ messages

\* Strings are sequences of one-character strings, so that the first-character
\* mapping and starts_with can be computed.
s_test == <<"s", "-", "t">>
S_test == <<"S", "-", "t">>
e_test == <<"e", "-", "t">>
E_test == <<"E", "-", "t">>
unknown == <<"u", "n", "k">>

user_allowed == "user_allowed"
user_not_allowed == "user_not_allowed"

NoMessage == [user |-> "", service_name |-> <<>>, args |-> <<>>, body |-> 0,
              attached_data |-> <<>>]

\* tests::build_message, with the body numbering the messages of a run.
build_message(user, service, n) ==
    [user |-> user, service_name |-> service, args |-> <<"arg0", "arg1">>,
     body |-> n, attached_data |-> <<"file1", "file2">>]

\* The n-th request of the producer, made from one of its templates.
request(t, n) ==
    IF Len(t) = 3
    THEN [build_message(t[1], t[2], n) EXCEPT !.args = t[3]]
    ELSE build_message(t[1], t[2], n)

\* Message::response: the user and the service_name of the request, the
\* other fields as Message::default() has them.
response(m) == [NoMessage EXCEPT !.user = m.user, !.service_name = m.service_name]

\* The texts Process puts in the body of a response stand in the model as
\* negative numbers; a request's body is its positive number.
NeedProcessText == -1
TerminatedText == -2
ErrorText == -3

\* char::to_lowercase yields an iterator of characters: one for most
\* characters, two for U+0130 (capital I with dot above, "I*" here), whose
\* lowercase is "i" followed by U+0307 (combining dot above, "*" here).
to_lowercase(c) ==
    CASE c = "S" -> <<"s">>
      [] c = "E" -> <<"e">>
      [] c = "I*" -> <<"i", "*">>
      [] OTHER -> <<c>>

\* Mutant: the mapping rebuilds the message and loses its arguments.
service_name_first_char_to_lowercase_LosesArgs(message) ==
    [message EXCEPT !.service_name =
                        IF Len(@) = 0 THEN <<>> ELSE to_lowercase(Head(@)) \o Tail(@),
                    !.args = <<>>]

\* Mutant: the rest of the name is taken from the whole name (chars.next()
\* not counted), so the first character stays behind its lowercase.
service_name_first_char_to_lowercase_KeepsFirst(message) ==
    [message EXCEPT !.service_name =
        IF Len(@) = 0 THEN <<>> ELSE to_lowercase(Head(@)) \o @]

service_name_first_char_to_lowercase(message) ==
    [message EXCEPT !.service_name =
        IF Len(@) = 0 THEN <<>> ELSE to_lowercase(Head(@)) \o Tail(@)]

starts_with(s, prefix) ==
    /\ Len(s) >= Len(prefix)
    /\ SubSeq(s, 1, Len(prefix)) = prefix

\* ------------------------------------------------------------- state

VARIABLES
    service_configs,      \* Engine.service_configs: <<[name, service, whitelist]>>
    input_mapping,        \* Engine.input_mapping is Some(first char to lowercase)
    input_filtering,      \* Engine.input_filtering is Some(not starts_with "s-")
    producer,             \* the external producer: what it sends, and how many
    sink_drains,          \* the external consumer of the sink reads its channel
    services,             \* run()'s registry: name -> ServiceHandle
    output_sender,        \* run() still holds its own output sender
    loop_pc,              \* Engine::run: "load", "select", "process", "returned"
    message,              \* the message process_message is sending
    input_queue,          \* buffer of the engine input channel
    output_queue,         \* buffer of the shared output channel
    service_queue,        \* buffer of each service's inbound channel
    input_task,           \* the input connector: [pc, message]
    output_task,          \* the output connector: [pc, message, joined]
    service_task,         \* each service worker: [pc, message]
    child_task,           \* the tasks the workers spawned: [pc, message]
    ext_in_open,          \* the external producer still holds its sender
    ext_out_alive,        \* the external consumer still holds its receiver
    script,               \* history: the messages the producer has sent
    received,             \* history: how many messages the dispatch loop read
    enqueued,             \* history: per worker, the messages enqueued to it
    delivered,            \* history: the messages the sink sent on
    log,                  \* history: the dispatch loop's log records
    mapped,               \* a message and what the input mapping makes of it
    stdin,                \* the lines of standard input not read yet
    input_report,         \* what load_input's supervisor has logged
    secret_type,          \* SecretManager::secret_type of the mail connector
    refreshes,            \* history: the calls of SecretManager::refresh
    mailbox,              \* the items of INBOX on the IMAP server, first at 1
    imap,                 \* ImapClient::run: [pc, email, failures, last_connect]
    deleted,              \* history: the items expunged from the mailbox
    produced,             \* history: the items parsed into a Message
    smtp,                 \* SmtpClient::run: [retrying, failures, tries]
    service_report,       \* what load_service's supervisors have logged
    manager,              \* SecretHandler.manager: the Oauth2Manager and its mutex
    handler,              \* the tasks that hold a clone of the SecretHandler
    token_server          \* the authorization server: the tokens it has issued

config_vars == <<service_configs, input_mapping, input_filtering, producer, sink_drains>>

\* The state of what is run apart from an engine.
stdin_vars == <<stdin, input_report>>
secret_vars == <<secret_type, refreshes>>
imap_vars == <<mailbox, imap, deleted, produced>>
handler_vars == <<manager, handler, token_server>>
apart_vars == <<service_report, handler_vars>>
connector_vars == <<mapped, stdin_vars, secret_vars, imap_vars, smtp, apart_vars>>

engine_vars == <<service_configs, input_mapping, input_filtering, producer, sink_drains,
          services, output_sender, loop_pc, message, input_queue, output_queue,
          service_queue, input_task, output_task, service_task, child_task,
          ext_in_open, ext_out_alive, script, received, enqueued, delivered, log>>

vars == <<engine_vars, connector_vars>>

Running == {"recv", "send"}

\* -------------------------------------------------------- configuration

Echo == "Echo"
EchoOnce == "EchoOnce"
Process == "Process"

\* The services that send on what they receive.
Forwards(service) == service \in {Echo, EchoOnce}

None == [some |-> FALSE, users |-> {}]
Some(users) == [some |-> TRUE, users |-> users]

add_service(name, service) ==
    [name |-> name, service |-> service, whitelist |-> None]

add_service_for(name, service, whitelist) ==
    [name |-> name, service |-> service, whitelist |-> Some(whitelist)]

\* The registrations the model is run with.
NoServices == <<>>
OneEcho == <<add_service(s_test, Echo)>>
OneEchoOnce == <<add_service(s_test, EchoOnce)>>
TwoServices == <<add_service_for(s_test, Echo, {user_allowed}),
                 add_service(e_test, EchoOnce)>>
SameName == <<add_service(s_test, EchoOnce), add_service(s_test, Echo)>>
OneProcess == <<add_service(s_test, Process)>>

\* What the external producer may send: <<user, service_name>> pairs.
FloodTemplates == {<<user_allowed, s_test>>}
MappedTemplates == {<<user_allowed, s_test>>, <<user_allowed, E_test>>}
MixedTemplates == {<<user_not_allowed, s_test>>, <<user_allowed, S_test>>,
                   <<user_allowed, E_test>>}
PlainTemplates == {<<user_allowed, s_test>>, <<user_allowed, unknown>>}

\* Requests for the Process service name their own arguments: none, or a
\* command to run.
ProcessTemplates == {<<user_allowed, s_test, <<>>>>,
                     <<user_allowed, s_test, <<"cmd">>>>}

\* ------------------------------------------------------------ channels

\* Mutant: a send does not notice that the receiver is gone.
SendResult_IgnoresClosed(buffer, receiver_alive) ==
    IF Len(buffer) < Capacity THEN "ok" ELSE "full"

\* Mutant: a queue has no capacity, a send never waits.
SendResult_Unbounded(buffer, receiver_alive) ==
    IF ~receiver_alive THEN "closed" ELSE "ok"

\* Mutant: a queue takes one message more than its capacity.
SendResult_OffByOne(buffer, receiver_alive) ==
    IF ~receiver_alive THEN "closed"
    ELSE IF Len(buffer) <= Capacity THEN "ok"
    ELSE "full"

\* Mutant: a send on a full queue fails at once (try_send) instead of waiting.
SendResult_FailsWhenFull(buffer, receiver_alive) ==
    IF ~receiver_alive \/ Len(buffer) >= Capacity THEN "closed" ELSE "ok"

\* tokio::sync::mpsc::Sender::send behind channel.rs Sender::send: an error
\* when the receiver is gone, the message buffered when there is room, and
\* otherwise the sender stays suspended.
SendResult(buffer, receiver_alive) ==
    IF ~receiver_alive THEN "closed"
    ELSE IF Len(buffer) < Capacity THEN "ok"
    ELSE "full"

\* Mutant: a receiver reports the closed channel as soon as every sender is
\* gone, whatever is still buffered.
RecvResult_ClosedFirst(buffer, sender_alive) ==
    IF ~sender_alive THEN "closed"
    ELSE IF buffer # <<>> THEN "some"
    ELSE "empty"

\* Mutant: a receiver does not notice that every sender is gone.
RecvResult_NeverClosed(buffer, sender_alive) ==
    IF buffer # <<>> THEN "some" ELSE "empty"

\* tokio::sync::mpsc::Receiver::recv behind channel.rs Receiver::recv: the
\* buffered messages first, None once every sender is gone, and otherwise the
\* receiver stays suspended.
RecvResult(buffer, sender_alive) ==
    IF buffer # <<>> THEN "some"
    ELSE IF ~sender_alive THEN "closed"
    ELSE "empty"

InputSenderAlive == input_task.pc \in Running
\* Mutant: the input receiver outlives run().
InputReceiverAlive_Outlives == TRUE

InputReceiverAlive == loop_pc # "returned"

\* Mutant: the workers share one output sender, gone with the first worker
\* that ends.
OutputSenderAlive_Shared ==
    \/ output_sender
    \/ /\ service_task # <<>>
       /\ \A i \in DOMAIN service_task : service_task[i].pc \in Running

\* Mutant: a child task borrows its parent's sender and holds none of its
\* own.
OutputSenderAlive_ParentsOnly ==
    \/ output_sender
    \/ \E i \in DOMAIN service_task : service_task[i].pc \in Running

\* The output sender has a clone in run() until load_services drops it, in
\* every running worker and in every child task that has not ended.
OutputSenderAlive ==
    \/ output_sender
    \/ \E i \in DOMAIN service_task : service_task[i].pc \in Running
    \/ \E c \in DOMAIN child_task : child_task[c].pc \notin {"done", "panicked"}
\* Mutant: the output receiver counts as alive until the supervisor has joined
\* the connector's task.
OutputReceiverAlive_UntilJoined == ~output_task.joined

OutputReceiverAlive == output_task.pc \in Running

\* The inbound sender of worker i lives in the registry's ServiceHandle.
ServiceSenderAlive(i) ==
    \/ loop_pc = "load"
    \/ \E n \in DOMAIN services : services[n].input_sender = i
ServiceReceiverAlive(i) == service_task[i].pc \in Running

\* ------------------------------------------------------------- Init

\* One Echo service and a producer that floods it with one request.
FloodScenario ==
    /\ service_configs = OneEcho
    /\ input_mapping = FALSE
    /\ input_filtering = FALSE
    /\ producer = [templates |-> FloodTemplates, max |-> FloodMsgs]
    /\ sink_drains \in BOOLEAN

\* Two services, one with an allow-list, with or without mapping and filter.
MixedScenario ==
    /\ service_configs = TwoServices
    /\ input_mapping \in BOOLEAN
    /\ input_filtering \in BOOLEAN
    /\ producer = [templates |-> MixedTemplates, max |-> MaxMsgs]
    /\ sink_drains = TRUE

\* No service, one service that answers once, or two services registered
\* under one name.
PlainScenario ==
    /\ service_configs \in {NoServices, OneEchoOnce, SameName}
    /\ input_mapping = FALSE
    /\ input_filtering = FALSE
    /\ producer = [templates |-> PlainTemplates, max |-> MaxMsgs]
    /\ sink_drains = TRUE

\* One Process service, sent requests with and without a command.
ProcessScenario ==
    /\ service_configs = OneProcess
    /\ input_mapping = FALSE
    /\ input_filtering = FALSE
    /\ producer = [templates |-> ProcessTemplates, max |-> MaxMsgs]
    /\ sink_drains = TRUE

\* No service at all.
QuietScenario ==
    /\ service_configs = NoServices
    /\ input_mapping = FALSE
    /\ input_filtering = FALSE
    /\ producer = [templates |-> PlainTemplates, max |-> MaxMsgs]
    /\ sink_drains = TRUE

\* One Process service and a producer that sends one request less.
ShortProcessScenario ==
    /\ service_configs = OneProcess
    /\ input_mapping = FALSE
    /\ input_filtering = FALSE
    /\ producer = [templates |-> ProcessTemplates, max |-> MaxMsgs - 1]
    /\ sink_drains = TRUE

\* Two services behind the mapping, each sent requests.
MappedScenario ==
    /\ service_configs = TwoServices
    /\ input_mapping = TRUE
    /\ input_filtering = FALSE
    /\ producer = [templates |-> MappedTemplates, max |-> MaxMsgs]
    /\ sink_drains = TRUE

\* run() has created the input and output channels and spawned the two
\* connectors; load_services is its next step.
Start ==
    /\ services = <<>>
    /\ output_sender = TRUE
    /\ loop_pc = "load"
    /\ message = NoMessage
    /\ input_queue = <<>>
    /\ output_queue = <<>>
    /\ service_queue = <<>>
    /\ input_task = [pc |-> "recv", message |-> NoMessage]
    /\ output_task = [pc |-> "recv", message |-> NoMessage, joined |-> FALSE]
    /\ service_task = <<>>
    /\ child_task = <<>>
    /\ ext_in_open = TRUE
    /\ ext_out_alive = TRUE
    /\ script = <<>>
    /\ received = 0
    /\ enqueued = <<>>
    /\ delivered = <<>>
    /\ log = <<>>

\* No message is under the input mapping apart from the engine.
NoMapper == mapped = <<>>

\* The input connector does not read standard input, and the model does not
\* follow its supervisor.
NoStdin == stdin = <<>> /\ input_report = ""

NoItem == [id |-> 0, kind |-> "none"]

\* No connector has a SecretManager.
NoSecret == secret_type = "Password" /\ refreshes = 0

\* The input connector is no mail client.
NoImap ==
    /\ mailbox = <<>>
    /\ imap = [pc |-> "off", email |-> NoItem, failures |-> 0, last_connect |-> "none"]
    /\ deleted = <<>>
    /\ produced = <<>>

\* The output connector is no mail client.
NoSmtp == smtp = [retrying |-> FALSE, failures |-> 0, tries |-> <<>>]

\* The model does not follow the supervisors of the workers.
NoReports == service_report = <<>>

\* No task holds a SecretHandler.
NoHandler ==
    /\ manager = [access_token |-> 0, locked_by |-> 0]
    /\ handler = <<>>
    /\ token_server = 0

\* An engine runs with its in-memory connectors, and nothing apart from it.
Detached == NoMapper /\ NoStdin /\ NoSecret /\ NoImap /\ NoSmtp /\ NoReports /\ NoHandler

Init ==
    /\ FloodScenario \/ MixedScenario \/ PlainScenario \/ ProcessScenario
    /\ Start
    /\ Detached

\* The initial states of the runs checked for progress.
LiveInit ==
    /\ MappedScenario \/ QuietScenario \/ ShortProcessScenario
    /\ Start
    /\ Detached

\* -------------------------------------------------- Engine::load_services

\* Mutant: for a name registered twice the first pair is kept.
LastIndex_First(name) ==
    CHOOSE i \in DOMAIN service_configs :
        /\ service_configs[i].name = name
        /\ \A j \in DOMAIN service_configs :
               service_configs[j].name = name => i <= j

\* HashMap::collect keeps, for a name registered twice, the last pair.
LastIndex(name) ==
    CHOOSE i \in DOMAIN service_configs :
        /\ service_configs[i].name = name
        /\ \A j \in DOMAIN service_configs :
               service_configs[j].name = name => j <= i

Registry ==
    [n \in {service_configs[i].name : i \in DOMAIN service_configs} |->
        [whitelist |-> service_configs[LastIndex(n)].whitelist,
         input_sender |-> LastIndex(n)]]

\* Mutant: the engine forgets to drop its own output sender.
RetainedOutputSender_NotDropped == TRUE

\* drop(output_sender): run() keeps no output sender of its own.
RetainedOutputSender == FALSE

load_services ==
    /\ loop_pc = "load"
    /\ services' = Registry
    /\ service_task' = [i \in DOMAIN service_configs |->
                           [pc |-> "recv", message |-> NoMessage]]
    /\ service_queue' = [i \in DOMAIN service_configs |-> <<>>]
    /\ enqueued' = [i \in DOMAIN service_configs |-> <<>>]
    /\ output_sender' = RetainedOutputSender
    /\ loop_pc' = "select"
    /\ UNCHANGED <<config_vars, connector_vars, child_task, message, input_queue, output_queue, input_task,
                   output_task, ext_in_open, ext_out_alive, script, received,
                   delivered, log>>

\* ------------------------------------------------------- Engine::run loop

\* Mutant: the lookup uses the message as it came, the mapping is not applied.
map_input_NotApplied(m) == m

map_input(m) ==
    IF input_mapping THEN service_name_first_char_to_lowercase(m) ELSE m

\* Mutant: the filter is not applied.
filter_input_NotApplied(m) == TRUE

filter_input(m) ==
    IF input_filtering THEN ~starts_with(m.service_name, <<"s", "-">>) ELSE TRUE

\* Mutant: the allow-list is not consulted.
allowed_Everyone(handle, m) == TRUE

\* ServiceHandle::process_message: the allow-list test.
allowed(handle, m) ==
    IF handle.whitelist.some THEN m.user \in handle.whitelist.users ELSE TRUE

\* Mutant: a message for an unknown service goes to process_message.
Route_UnknownSent(m) ==
    IF ~filter_input(m) THEN "filtered"
    ELSE IF m.service_name \notin DOMAIN services THEN "send"
    ELSE IF ~allowed(services[m.service_name], m) THEN "not_allowed"
    ELSE "send"

\* What the select arm does with a mapped message: drop it (filtered, unknown
\* service, user not allowed) or send it to the service's queue.
Route(m) ==
    IF ~filter_input(m) THEN "filtered"
    ELSE IF m.service_name \notin DOMAIN services THEN "unknown"
    ELSE IF ~allowed(services[m.service_name], m) THEN "not_allowed"
    ELSE "send"

Logged(event, m) == Append(log, [event |-> event, message |-> m])

\* Some(message) = input_receiver.recv(): map, filter, look the service up
\* and enter process_message.
engine_recv ==
    /\ loop_pc = "select"
    /\ RecvResult(input_queue, InputSenderAlive) = "some"
    /\ LET m == map_input(Head(input_queue))
           route == Route(m)
       IN  /\ input_queue' = Tail(input_queue)
           /\ received' = received + 1
           /\ loop_pc' = IF route = "send" THEN "process" ELSE "select"
           /\ message' = IF route = "send" THEN m ELSE NoMessage
           /\ log' = IF route \in {"unknown", "not_allowed"}
                     THEN Logged(route, m) ELSE log
    /\ UNCHANGED <<config_vars, connector_vars, child_task, services, output_sender, output_queue,
                   service_queue, input_task, output_task, service_task,
                   ext_in_open, ext_out_alive, script, enqueued, delivered>>

\* Mutant: a send that finds the queue full takes the oldest buffered message
\* out, puts its own in and goes on sending the one it took out.
engine_send_Overtakes ==
    /\ loop_pc = "process"
    /\ LET w == services[message.service_name].input_sender
           result == SendResult(service_queue[w], ServiceReceiverAlive(w))
       IN  CASE result = "ok" ->
                 /\ service_queue' = [service_queue EXCEPT ![w] = Append(@, message)]
                 /\ enqueued' = [enqueued EXCEPT ![w] = Append(@, message)]
                 /\ log' = Logged("processing", message)
                 /\ loop_pc' = "select"
                 /\ message' = NoMessage
             [] result = "closed" ->
                 /\ log' = Logged("removed", message)
                 /\ loop_pc' = "select"
                 /\ message' = NoMessage
                 /\ UNCHANGED <<service_queue, enqueued>>
             [] result = "full" ->
                 /\ service_queue' = [service_queue EXCEPT
                                         ![w] = Append(Tail(@), message)]
                 /\ enqueued' = [enqueued EXCEPT ![w] = Append(@, message)]
                 /\ message' = Head(service_queue[w])
                 /\ UNCHANGED <<loop_pc, log>>
    /\ UNCHANGED <<config_vars, connector_vars, child_task, services, output_sender, input_queue, output_queue,
                   input_task, output_task, service_task, ext_in_open,
                   ext_out_alive, script, received, delivered>>

\* Mutant: a send that finds the worker gone takes the service out of the
\* registry.
engine_send_Unregisters ==
    /\ loop_pc = "process"
    /\ LET w == services[message.service_name].input_sender
           result == SendResult(service_queue[w], ServiceReceiverAlive(w))
       IN  /\ result # "full"
           /\ IF result = "ok"
              THEN /\ service_queue' = [service_queue EXCEPT ![w] = Append(@, message)]
                   /\ enqueued' = [enqueued EXCEPT ![w] = Append(@, message)]
                   /\ log' = Logged("processing", message)
                   /\ UNCHANGED services
              ELSE /\ log' = Logged("removed", message)
                   /\ services' = [n \in DOMAIN services \ {message.service_name} |->
                                      services[n]]
                   /\ UNCHANGED <<service_queue, enqueued>>
    /\ loop_pc' = "select"
    /\ message' = NoMessage
    /\ UNCHANGED <<config_vars, connector_vars, child_task, output_sender, input_queue, output_queue,
                   input_task, output_task, service_task, ext_in_open,
                   ext_out_alive, script, received, delivered>>

\* self.input_sender.send(message).await inside process_message.
engine_send ==
    /\ loop_pc = "process"
    /\ LET w == services[message.service_name].input_sender
           result == SendResult(service_queue[w], ServiceReceiverAlive(w))
       IN  /\ result # "full"
           /\ IF result = "ok"
              THEN /\ service_queue' = [service_queue EXCEPT ![w] = Append(@, message)]
                   /\ enqueued' = [enqueued EXCEPT ![w] = Append(@, message)]
                   /\ log' = Logged("processing", message)
              ELSE /\ log' = Logged("removed", message)
                   /\ UNCHANGED <<service_queue, enqueued>>
    /\ loop_pc' = "select"
    /\ message' = NoMessage
    /\ UNCHANGED <<config_vars, connector_vars, child_task, services, output_sender, input_queue, output_queue,
                   input_task, output_task, service_task, ext_in_open,
                   ext_out_alive, script, received, delivered>>

\* _ = &mut output_task => break: run() returns and drops the registry and
\* the input receiver.
\* Mutant: the loop also breaks when the input queue is closed and empty (the
\* select's else arm taken with the output task still pending).
OutputTaskReady_OrInputClosed ==
    \/ output_task.joined
    \/ RecvResult(input_queue, InputSenderAlive) = "closed"

\* Mutant: the loop breaks on the output task only once the input is closed
\* too (all arms done).
OutputTaskReady_AndInputClosed ==
    /\ output_task.joined
    /\ RecvResult(input_queue, InputSenderAlive) = "closed"

OutputTaskReady == output_task.joined

\* Mutant: run() returns and its registry outlives it (the handles are leaked).
engine_break_KeepsRegistry ==
    /\ loop_pc = "select"
    /\ OutputTaskReady
    /\ loop_pc' = "returned"
    /\ input_queue' = <<>>
    /\ UNCHANGED <<config_vars, connector_vars, child_task, services, output_sender, message, output_queue,
                   service_queue, input_task, output_task, service_task, ext_in_open,
                   ext_out_alive, script, received, enqueued, delivered, log>>

engine_break ==
    /\ loop_pc = "select"
    /\ OutputTaskReady
    /\ loop_pc' = "returned"
    /\ services' = <<>>
    /\ input_queue' = <<>>
    /\ UNCHANGED <<config_vars, connector_vars, child_task, output_sender, message, output_queue, service_queue,
                   input_task, output_task, service_task, ext_in_open,
                   ext_out_alive, script, received, enqueued, delivered, log>>

\* ------------------------------------------------- the input connector

Task(pc, m) == [pc |-> pc, message |-> m]

\* self.recv().await yields Some(message): the producer sends its next message.
input_recv ==
    /\ input_task.pc = "recv"
    /\ ext_in_open
    /\ Len(script) < producer.max
    /\ \E t \in producer.templates :
          LET m == request(t, Len(script) + 1)
          IN  /\ script' = Append(script, m)
              /\ input_task' = Task("send", m)
    /\ UNCHANGED <<config_vars, connector_vars, child_task, services, output_sender, loop_pc, message,
                   input_queue, output_queue, service_queue, output_task,
                   service_task, ext_in_open, ext_out_alive, received, enqueued,
                   delivered, log>>

\* self.recv().await yields None: break Ok(()).
input_eof ==
    /\ input_task.pc = "recv"
    /\ ~ext_in_open
    /\ input_task' = Task("finished", NoMessage)
    /\ UNCHANGED <<config_vars, connector_vars, child_task, services, output_sender, loop_pc, message,
                   input_queue, output_queue, service_queue, output_task,
                   service_task, ext_in_open, ext_out_alive, script, received,
                   enqueued, delivered, log>>

\* sender.send(message).await?
input_send ==
    /\ input_task.pc = "send"
    /\ LET result == SendResult(input_queue, InputReceiverAlive)
       IN  /\ result # "full"
           /\ IF result = "ok"
              THEN /\ input_queue' = Append(input_queue, input_task.message)
                   /\ input_task' = Task("recv", NoMessage)
              ELSE /\ input_task' = Task("disconnected", NoMessage)
                   /\ UNCHANGED input_queue
    /\ UNCHANGED <<config_vars, connector_vars, child_task, services, output_sender, loop_pc, message,
                   output_queue, service_queue, output_task, service_task,
                   ext_in_open, ext_out_alive, script, received, enqueued,
                   delivered, log>>

\* The connector's task unwinds: load_input's join yields Err(JoinError).
input_panic ==
    /\ input_task.pc \in Running
    /\ input_task' = Task("panicked", NoMessage)
    /\ UNCHANGED <<config_vars, connector_vars, child_task, services, output_sender, loop_pc, message,
                   input_queue, output_queue, service_queue, output_task,
                   service_task, ext_in_open, ext_out_alive, script, received,
                   enqueued, delivered, log>>

\* The external producer drops its sender.
ext_input_close ==
    /\ ext_in_open
    /\ ext_in_open' = FALSE
    /\ UNCHANGED <<config_vars, connector_vars, child_task, services, output_sender, loop_pc, message,
                   input_queue, output_queue, service_queue, input_task,
                   output_task, service_task, ext_out_alive, script, received,
                   enqueued, delivered, log>>

\* ------------------------------------------------ the output connector

OutputTask(pc, m) == [pc |-> pc, message |-> m, joined |-> FALSE]

\* Mutant: the connector watches its external receiver while it waits in
\* recv, and returns as soon as that receiver is dropped.
output_recv_WatchesSink ==
    /\ output_task.pc = "recv"
    /\ IF ~ext_out_alive
       THEN /\ output_task' = OutputTask("finished", NoMessage)
            /\ output_queue' = <<>>
       ELSE LET result == RecvResult(output_queue, OutputSenderAlive)
            IN  /\ result # "empty"
                /\ IF result = "some"
                   THEN /\ output_task' = OutputTask("send", Head(output_queue))
                        /\ output_queue' = Tail(output_queue)
                   ELSE /\ output_task' = OutputTask("disconnected", NoMessage)
                        /\ output_queue' = <<>>
    /\ UNCHANGED <<config_vars, connector_vars, child_task, services, output_sender, loop_pc, message,
                   input_queue, service_queue, input_task, service_task,
                   ext_in_open, ext_out_alive, script, received, enqueued,
                   delivered, log>>

\* receiver.recv().await?  The receiver is dropped with the task, and a
\* dropped receiver discards what its channel still buffers.
output_recv ==
    /\ output_task.pc = "recv"
    /\ LET result == RecvResult(output_queue, OutputSenderAlive)
       IN  /\ result # "empty"
           /\ IF result = "some"
              THEN /\ output_task' = OutputTask("send", Head(output_queue))
                   /\ output_queue' = Tail(output_queue)
              ELSE /\ output_task' = OutputTask("disconnected", NoMessage)
                   /\ output_queue' = <<>>
    /\ UNCHANGED <<config_vars, connector_vars, child_task, services, output_sender, loop_pc, message,
                   input_queue, service_queue, input_task, service_task,
                   ext_in_open, ext_out_alive, script, received, enqueued,
                   delivered, log>>

\* Mutant: the connector ignores a failed send and goes on receiving.
output_send_IgnoresError ==
    /\ output_task.pc = "send"
    /\ ~ext_out_alive \/ sink_drains
    /\ delivered' = IF ext_out_alive THEN Append(delivered, output_task.message)
                    ELSE delivered
    /\ output_task' = OutputTask("recv", NoMessage)
    /\ UNCHANGED <<config_vars, connector_vars, child_task, services, output_sender, loop_pc, message,
                   input_queue, output_queue, service_queue, input_task,
                   service_task, ext_in_open, ext_out_alive, script, received,
                   enqueued, log>>

\* if self.send(message).await.is_err() { break Ok(()) }
output_send ==
    /\ output_task.pc = "send"
    /\ IF ~ext_out_alive
       THEN /\ output_task' = OutputTask("finished", NoMessage)
            /\ output_queue' = <<>>
            /\ UNCHANGED delivered
       ELSE /\ sink_drains
            /\ delivered' = Append(delivered, output_task.message)
            /\ output_task' = OutputTask("recv", NoMessage)
            /\ UNCHANGED output_queue
    /\ UNCHANGED <<config_vars, connector_vars, child_task, services, output_sender, loop_pc, message,
                   input_queue, service_queue, input_task, service_task,
                   ext_in_open, ext_out_alive, script, received, enqueued, log>>

\* The connector's task unwinds: load_output's join yields Err(JoinError).
output_panic ==
    /\ output_task.pc \in Running
    /\ output_task' = OutputTask("panicked", NoMessage)
    /\ output_queue' = <<>>
    /\ UNCHANGED <<config_vars, connector_vars, child_task, services, output_sender, loop_pc, message,
                   input_queue, service_queue, input_task, service_task,
                   ext_in_open, ext_out_alive, script, received, enqueued,
                   delivered, log>>

\* Mutant: the supervisor unwraps the join result, so a panic of the connector
\* unwinds the supervisor too and its handle never completes normally.
output_join_Unwinds ==
    /\ output_task.pc \in {"finished", "disconnected"}
    /\ ~output_task.joined
    /\ output_task' = [output_task EXCEPT !.joined = TRUE]
    /\ UNCHANGED <<config_vars, connector_vars, child_task, services, output_sender, loop_pc, message,
                   input_queue, output_queue, service_queue, input_task,
                   service_task, ext_in_open, ext_out_alive, script, received,
                   enqueued, delivered, log>>

\* Engine::load_output's supervisor: the inner task is joined, its result is
\* logged and the supervisor task (run()'s output_task handle) completes.
output_join ==
    /\ output_task.pc \notin Running
    /\ ~output_task.joined
    /\ output_task' = [output_task EXCEPT !.joined = TRUE]
    /\ UNCHANGED <<config_vars, connector_vars, child_task, services, output_sender, loop_pc, message,
                   input_queue, output_queue, service_queue, input_task,
                   service_task, ext_in_open, ext_out_alive, script, received,
                   enqueued, delivered, log>>

\* The external consumer drops its receiver.
ext_output_drop ==
    /\ ext_out_alive
    /\ ext_out_alive' = FALSE
    /\ UNCHANGED <<config_vars, connector_vars, child_task, services, output_sender, loop_pc, message,
                   input_queue, output_queue, service_queue, input_task,
                   output_task, service_task, ext_in_open, script, received,
                   enqueued, delivered, log>>

\* ------------------------------------------------- the service workers

\* Mutant: the worker keeps the request without its attachments.
service_recv_DropsAttachments(i) ==
    /\ Forwards(service_configs[i].service)
    /\ service_task[i].pc = "recv"
    /\ LET result == RecvResult(service_queue[i], ServiceSenderAlive(i))
       IN  /\ result # "empty"
           /\ IF result = "some"
              THEN /\ service_task' = [service_task EXCEPT
                                          ![i] = Task("send",
                                              [Head(service_queue[i]) EXCEPT
                                                  !.attached_data = <<>>])]
                   /\ service_queue' = [service_queue EXCEPT ![i] = Tail(@)]
              ELSE /\ service_task' = [service_task EXCEPT
                                          ![i] = Task("disconnected", NoMessage)]
                   /\ service_queue' = [service_queue EXCEPT ![i] = <<>>]
    /\ UNCHANGED <<config_vars, connector_vars, child_task, services, output_sender, loop_pc, message,
                   input_queue, output_queue, input_task, output_task,
                   ext_in_open, ext_out_alive, script, received, enqueued,
                   delivered, log>>

\* input.recv().await? of Echo and EchoOnce.
service_recv(i) ==
    /\ Forwards(service_configs[i].service)
    /\ service_task[i].pc = "recv"
    /\ LET result == RecvResult(service_queue[i], ServiceSenderAlive(i))
       IN  /\ result # "empty"
           /\ IF result = "some"
              THEN /\ service_task' = [service_task EXCEPT
                                          ![i] = Task("send", Head(service_queue[i]))]
                   /\ service_queue' = [service_queue EXCEPT ![i] = Tail(@)]
              ELSE /\ service_task' = [service_task EXCEPT
                                          ![i] = Task("disconnected", NoMessage)]
                   /\ service_queue' = [service_queue EXCEPT ![i] = <<>>]
    /\ UNCHANGED <<config_vars, connector_vars, child_task, services, output_sender, loop_pc, message,
                   input_queue, output_queue, input_task, output_task,
                   ext_in_open, ext_out_alive, script, received, enqueued,
                   delivered, log>>

\* Mutant: EchoOnce loops as Echo does.
AfterSend_AlwaysLoops(service) == "recv"

\* Where the worker goes after a successful send: Echo loops, EchoOnce returns.
AfterSend(service) == IF service = Echo THEN "recv" ELSE "finished"

\* output.send(message).await of Echo and EchoOnce.
service_send(i) ==
    /\ Forwards(service_configs[i].service)
    /\ service_task[i].pc = "send"
    /\ LET result == SendResult(output_queue, OutputReceiverAlive)
           next == IF result = "ok" THEN AfterSend(service_configs[i].service)
                   ELSE "disconnected"
       IN  /\ result # "full"
           /\ output_queue' = IF result = "ok"
                              THEN Append(output_queue, service_task[i].message)
                              ELSE output_queue
           /\ service_task' = [service_task EXCEPT ![i] = Task(next, NoMessage)]
           /\ service_queue' = IF next \in Running THEN service_queue
                               ELSE [service_queue EXCEPT ![i] = <<>>]
    /\ UNCHANGED <<config_vars, connector_vars, child_task, services, output_sender, loop_pc, message,
                   input_queue, input_task, output_task, ext_in_open,
                   ext_out_alive, script, received, enqueued, delivered, log>>

\* input.recv().await? of Process, and the match on the request's arguments:
\* with a command, a child task is spawned with a clone of the output sender
\* and the worker receives again; with none, the worker sends a format error.
process_recv(i) ==
    /\ service_configs[i].service = Process
    /\ service_task[i].pc = "recv"
    /\ LET result == RecvResult(service_queue[i], ServiceSenderAlive(i))
           req == Head(service_queue[i])
       IN  /\ result # "empty"
           /\ IF result = "closed"
              THEN /\ service_task' = [service_task EXCEPT
                                          ![i] = Task("disconnected", NoMessage)]
                   /\ service_queue' = [service_queue EXCEPT ![i] = <<>>]
                   /\ UNCHANGED child_task
              ELSE /\ service_queue' = [service_queue EXCEPT ![i] = Tail(@)]
                   /\ IF req.args = <<>>
                      THEN /\ service_task' =
                                 [service_task EXCEPT ![i] =
                                     Task("send", [response(req) EXCEPT
                                                      !.args = <<"format error">>,
                                                      !.body = NeedProcessText])]
                           /\ UNCHANGED child_task
                      ELSE /\ child_task' = Append(child_task, Task("running", req))
                           /\ UNCHANGED service_task
    /\ UNCHANGED <<config_vars, connector_vars, services, output_sender, loop_pc, message,
                   input_queue, output_queue, input_task, output_task,
                   ext_in_open, ext_out_alive, script, received, enqueued,
                   delivered, log>>

\* output.send(response).await.ok() of Process: whatever the send returns,
\* the worker goes back to its recv.
process_send(i) ==
    /\ service_configs[i].service = Process
    /\ service_task[i].pc = "send"
    /\ LET result == SendResult(output_queue, OutputReceiverAlive)
       IN  /\ result # "full"
           /\ output_queue' = IF result = "ok"
                              THEN Append(output_queue, service_task[i].message)
                              ELSE output_queue
    /\ service_task' = [service_task EXCEPT ![i] = Task("recv", NoMessage)]
    /\ UNCHANGED <<config_vars, connector_vars, child_task, services, output_sender, loop_pc,
                   message, input_queue, service_queue, input_task, output_task,
                   ext_in_open, ext_out_alive, script, received, enqueued,
                   delivered, log>>

\* child.await in the task Process spawned: the command has ended, with an
\* output or with an error, and the task has its response to send.
child_exit(c) ==
    /\ child_task[c].pc = "running"
    /\ \E outcome \in {"Terminated", "error"} :
          child_task' = [child_task EXCEPT ![c] =
              Task("send", [response(child_task[c].message) EXCEPT
                               !.args = <<outcome>>,
                               !.body = IF outcome = "error" THEN ErrorText
                                        ELSE TerminatedText])]
    /\ UNCHANGED <<config_vars, connector_vars, services, output_sender, loop_pc, message,
                   input_queue, output_queue, service_queue, input_task,
                   output_task, service_task, ext_in_open, ext_out_alive, script,
                   received, enqueued, delivered, log>>

\* output.send(response).await.ok() in the spawned task, which then ends and
\* drops its clone of the output sender.
child_send(c) ==
    /\ child_task[c].pc = "send"
    /\ LET result == SendResult(output_queue, OutputReceiverAlive)
       IN  /\ result # "full"
           /\ output_queue' = IF result = "ok"
                              THEN Append(output_queue, child_task[c].message)
                              ELSE output_queue
    /\ child_task' = [child_task EXCEPT ![c] = Task("done", NoMessage)]
    /\ UNCHANGED <<config_vars, connector_vars, services, output_sender, loop_pc, message,
                   input_queue, service_queue, input_task, output_task,
                   service_task, ext_in_open, ext_out_alive, script, received,
                   enqueued, delivered, log>>

\* The worker's task unwinds: load_service's join yields Err(JoinError).
service_panic(i) ==
    /\ service_task[i].pc \in Running
    /\ service_task' = [service_task EXCEPT ![i] = Task("panicked", NoMessage)]
    /\ service_queue' = [service_queue EXCEPT ![i] = <<>>]
    /\ UNCHANGED <<config_vars, connector_vars, child_task, services, output_sender, loop_pc, message,
                   input_queue, output_queue, input_task, output_task,
                   ext_in_open, ext_out_alive, script, received, enqueued,
                   delivered, log>>

\* ------------------------------------------------------ specification

\* The steps the program takes by itself, once they are possible.
Engine == load_services \/ engine_recv \/ engine_send \/ engine_break
Input == input_recv \/ input_eof \/ input_send
Output == output_recv \/ output_send \/ output_join
Service(i) ==
    \/ service_recv(i)
    \/ service_send(i)
    \/ process_recv(i)
    \/ process_send(i)
Child(c) == child_exit(c) \/ child_send(c)

\* What may happen to the program: a task panics, the outside drops an end.
Failure ==
    \/ input_panic
    \/ output_panic
    \/ \E i \in DOMAIN service_task : service_panic(i)
    \/ ext_input_close
    \/ ext_output_drop

Next ==
    \/ Engine
    \/ Input
    \/ Output
    \/ \E i \in DOMAIN service_task : Service(i)
    \/ \E c \in DOMAIN child_task : Child(c)
    \/ Failure

Spec == Init /\ [][Next]_vars

\* The tokio runtime polls every task that can make progress: each task takes
\* its next step if that step stays possible.  The producer is not obliged to
\* send, nothing is obliged to fail, and a command a child task waits for is
\* not obliged to end.
WorkerIds == DOMAIN TwoServices
ChildIds == 1..MaxMsgs

FairSpec ==
    /\ LiveInit /\ [][Next]_vars
    /\ WF_vars(Engine)
    /\ WF_vars(input_eof \/ input_send)
    /\ WF_vars(Output)
    /\ \A i \in WorkerIds : WF_vars(i \in DOMAIN service_task /\ Service(i))
    /\ \A c \in ChildIds : WF_vars(c \in DOMAIN child_task /\ child_send(c))

\* ------------------------------------------ the input mapping on its own

\* The characters a service_name is made of here, and the names.
NameChars == {"S", "s", "-", "I*", "*"}

Names == UNION {[1..n -> NameChars] : n \in 0..MaxNameLen}

\* Engine::map_input(util::service_name_first_char_to_lowercase) given every
\* message with such a name, from either user.
MapInputs ==
    {build_message(user, name, 1) :
        user \in {user_allowed, user_not_allowed}, name \in Names}

\* map(message), on the message the mapping returned last.
apply_map ==
    /\ mapped # <<>>
    /\ Len(mapped) <= MaxApplications
    /\ mapped' = Append(mapped,
                        service_name_first_char_to_lowercase(mapped[Len(mapped)]))
    /\ UNCHANGED <<engine_vars, stdin_vars, secret_vars, imap_vars, smtp, apart_vars>>

MapInit ==
    /\ QuietScenario
    /\ Start
    /\ NoStdin
    /\ NoSecret
    /\ NoImap
    /\ NoSmtp
    /\ NoReports
    /\ NoHandler
    /\ mapped \in {<<m>> : m \in MapInputs}

MapSpec == MapInit /\ [][apply_map]_vars

\* ------------------------------------------- connectors/stdin.rs UserStdin

\* The lines standard input may hold, each as split_whitespace yields it: no
\* word (a blank line), a service name, a service name and an argument.
StdinLines == {<<>>, <<s_test>>, <<s_test, "arg0">>}

StdinContents == UNION {[1..n -> StdinLines] : n \in 0..MaxLines}

\* The Message UserStdin makes of a line's words: the first is the service
\* name, the others the arguments, no body and no attachments.
line_message(user_name, words) ==
    [NoMessage EXCEPT !.user = user_name,
                      !.service_name = Head(words),
                      !.args = Tail(words)]

\* lines().next() yields a line: a message is made of its words and is to be
\* sent, or the line has no word and the next one is read.
stdin_line ==
    /\ input_task.pc = "recv"
    /\ stdin # <<>>
    /\ stdin' = Tail(stdin)
    /\ IF Head(stdin) # <<>>
       THEN LET m == line_message(user_allowed, Head(stdin))
            IN  /\ input_task' = Task("send", m)
                /\ script' = Append(script, m)
       ELSE UNCHANGED <<input_task, script>>
    /\ UNCHANGED <<config_vars, mapped, input_report, secret_vars, imap_vars, smtp, apart_vars,
                   child_task, services,
                   output_sender, loop_pc, message, input_queue, output_queue,
                   service_queue, output_task, service_task, ext_in_open,
                   ext_out_alive, received, enqueued, delivered, log>>

\* lines().next() yields None at the end of standard input: the unwrap in
\* the blocking closure panics, the unwrap of its JoinError panics in run and
\* the connector's task unwinds.
stdin_eof ==
    /\ input_task.pc = "recv"
    /\ stdin = <<>>
    /\ input_task' = Task("panicked", NoMessage)
    /\ UNCHANGED <<config_vars, connector_vars, child_task, services, output_sender,
                   loop_pc, message, input_queue, output_queue, service_queue,
                   output_task, service_task, ext_in_open, ext_out_alive, script,
                   received, enqueued, delivered, log>>

\* Mutant: every task that did not panic is logged as finished.
log_join_result_OkIsFinished(result) ==
    CASE result \in {"finished", "disconnected"} -> "finished"
      [] OTHER -> "panicked"

\* Engine::log_join_result: Ok(Ok(())) is logged as finished, Ok(Err(_)) as
\* disconnected and Err(_), the JoinError of a task that unwound, as
\* panicked.  The join result of a task is what its pc ended with.
log_join_result(result) ==
    CASE result = "finished" -> "finished"
      [] result = "disconnected" -> "disconnected"
      [] OTHER -> "panicked"

\* Engine::load_input's supervisor: the connector's task is joined and
\* log_join_result logs how it ended.
input_join ==
    /\ input_task.pc \notin Running
    /\ input_report = ""
    /\ input_report' = log_join_result(input_task.pc)
    /\ UNCHANGED <<engine_vars, mapped, stdin, secret_vars, imap_vars, smtp, apart_vars>>

\* An engine with UserStdin as its input and one service.
StdinInit ==
    /\ service_configs \in {OneEcho, OneEchoOnce}
    /\ input_mapping = FALSE
    /\ input_filtering = FALSE
    /\ producer = [templates |-> {}, max |-> 0]
    /\ sink_drains = TRUE
    /\ Start
    /\ NoMapper
    /\ NoSecret
    /\ NoImap
    /\ NoSmtp
    /\ NoReports
    /\ NoHandler
    /\ stdin \in StdinContents
    /\ input_report = ""

StdinNext ==
    \/ stdin_line
    \/ stdin_eof
    \/ input_send
    \/ input_join
    \/ Engine
    \/ Output
    \/ \E i \in DOMAIN service_task : service_recv(i) \/ service_send(i)
    \/ ext_output_drop

StdinSpec == StdinInit /\ [][StdinNext]_vars

\* ------------------------------------------- connectors/imap.rs ImapClient

\* What an item of the mailbox is to read_inbox: an email that parses, one
\* that has no body (email.body() is None), one that parse_mail rejects.
ItemKinds == {"good", "no_body", "unparsable"}

Mailboxes ==
    UNION {{[k \in 1..n |-> [id |-> k, kind |-> kinds[k]]] :
                kinds \in [1..n -> ItemKinds]} : n \in 0..MaxMail}

\* email_to_message: the Message made of a parsed email.
email_to_message(email) == build_message(user_allowed, s_test, email.id)

\* What a request to the IMAP server may come to: the servers fail no more
\* than MaxFailures requests of a run.
ConnectOutcomes ==
    IF imap.failures < MaxFailures THEN {"ok", "auth_failed", "other"} ELSE {"ok"}

\* let mut session = self.connect().await.unwrap(): the first connection, or
\* a panic of the connector's task.
imap_connect ==
    /\ imap.pc = "connect"
    /\ input_task.pc = "recv"
    /\ \E outcome \in ConnectOutcomes :
          IF outcome = "ok"
          THEN /\ imap' = [imap EXCEPT !.pc = "poll", !.last_connect = outcome]
               /\ UNCHANGED input_task
          ELSE /\ imap' = [imap EXCEPT !.pc = "off", !.last_connect = outcome,
                                       !.failures = @ + 1]
               /\ input_task' = Task("panicked", NoMessage)
    /\ UNCHANGED <<config_vars, mapped, stdin_vars, apart_vars, smtp, secret_type, refreshes, mailbox,
                   deleted, produced, child_task, services, output_sender, loop_pc,
                   message, input_queue, output_queue, service_queue, output_task,
                   service_task, ext_in_open, ext_out_alive, script, received,
                   enqueued, delivered, log>>

\* Mutant: read_inbox leaves the item in the mailbox until it is parsed.
imap_read_DeletesLater ==
    /\ imap.pc = "poll"
    /\ input_task.pc = "recv"
    /\ \/ /\ imap.failures < MaxFailures
          /\ imap' = [imap EXCEPT !.pc = "reconnect", !.failures = @ + 1]
          /\ UNCHANGED <<mailbox, deleted>>
       \/ /\ mailbox # <<>>
          /\ mailbox' = Tail(mailbox)
          /\ UNCHANGED deleted
          /\ imap' = [imap EXCEPT !.pc = "parse", !.email = Head(mailbox)]
    /\ UNCHANGED <<config_vars, mapped, stdin_vars, apart_vars, smtp, secret_type, refreshes, produced,
                   child_task, services, output_sender, loop_pc, message,
                   input_queue, output_queue, service_queue, input_task,
                   output_task, service_task, ext_in_open, ext_out_alive, script,
                   received, enqueued, delivered, log>>

\* read_inbox up to its expunge: select, fetch of item 1, store of the
\* Deleted flag and expunge.  A request that fails ends read_inbox with the
\* error and run goes on to reconnect; with an item in the mailbox, the item
\* is deleted and is then to be parsed.  (With no item read_inbox returns
\* Ok(None) and run polls again: no change of state.)
imap_read ==
    /\ imap.pc = "poll"
    /\ input_task.pc = "recv"
    /\ \/ /\ imap.failures < MaxFailures
          /\ imap' = [imap EXCEPT !.pc = "reconnect", !.failures = @ + 1]
          /\ UNCHANGED <<mailbox, deleted>>
       \/ /\ mailbox # <<>>
          /\ mailbox' = Tail(mailbox)
          /\ deleted' = Append(deleted, Head(mailbox))
          /\ imap' = [imap EXCEPT !.pc = "parse", !.email = Head(mailbox)]
    /\ UNCHANGED <<config_vars, mapped, stdin_vars, apart_vars, smtp, secret_type, refreshes, produced,
                   child_task, services, output_sender, loop_pc, message,
                   input_queue, output_queue, service_queue, input_task,
                   output_task, service_task, ext_in_open, ext_out_alive, script,
                   received, enqueued, delivered, log>>

\* The rest of read_inbox: email.body() and parse_mail.  A parsed email is
\* returned as Some(message), which run is to send; an email with no body or
\* one that does not parse gives Ok(None), and run polls again.
imap_parse ==
    /\ imap.pc = "parse"
    /\ imap' = [imap EXCEPT !.pc = "poll", !.email = NoItem]
    /\ IF imap.email.kind = "good"
       THEN LET m == email_to_message(imap.email)
            IN  /\ produced' = Append(produced, imap.email.id)
                /\ input_task' = Task("send", m)
                /\ script' = Append(script, m)
       ELSE UNCHANGED <<produced, input_task, script>>
    /\ UNCHANGED <<config_vars, mapped, stdin_vars, apart_vars, smtp, secret_type, refreshes, mailbox,
                   deleted, child_task, services, output_sender, loop_pc, message,
                   input_queue, output_queue, service_queue, output_task,
                   service_task, ext_in_open, ext_out_alive, received, enqueued,
                   delivered, log>>

\* Mutant: the credential is refreshed after any failed reconnect.
NeedsRefresh_AnyFailure(outcome) == outcome # "ok"

\* Err(Error::No(msg)) if msg.contains("AUTHENTICATIONFAILED") &&
\* secret_type() == SecretType::AccessToken
NeedsRefresh(outcome) == outcome = "auth_failed" /\ secret_type = "AccessToken"

\* session = match self.connect().await: the session is restored, or the
\* credential is refreshed, or the error is logged; then the loop goes on.
imap_reconnect ==
    /\ imap.pc = "reconnect"
    /\ \E outcome \in ConnectOutcomes :
          /\ imap' = [imap EXCEPT !.pc = "poll", !.last_connect = outcome,
                                  !.failures = IF outcome = "ok" THEN @ ELSE @ + 1]
          /\ refreshes' = IF NeedsRefresh(outcome) THEN refreshes + 1 ELSE refreshes
    /\ UNCHANGED <<config_vars, mapped, stdin_vars, apart_vars, smtp, secret_type, mailbox, deleted,
                   produced, child_task, services, output_sender, loop_pc, message,
                   input_queue, output_queue, service_queue, input_task,
                   output_task, service_task, ext_in_open, ext_out_alive, script,
                   received, enqueued, delivered, log>>

\* An engine with ImapClient as its input and one service.
ImapInit ==
    /\ service_configs = OneEchoOnce
    /\ input_mapping = FALSE
    /\ input_filtering = FALSE
    /\ producer = [templates |-> {}, max |-> 0]
    /\ sink_drains = TRUE
    /\ Start
    /\ NoMapper
    /\ NoStdin
    /\ NoSmtp
    /\ NoReports
    /\ NoHandler
    /\ secret_type \in {"Password", "AccessToken"}
    /\ refreshes = 0
    /\ mailbox \in Mailboxes
    /\ imap = [pc |-> "connect", email |-> NoItem, failures |-> 0,
               last_connect |-> "none"]
    /\ deleted = <<>>
    /\ produced = <<>>

ImapNext ==
    \/ imap_connect
    \/ imap_read
    \/ imap_parse
    \/ imap_reconnect
    \/ input_send
    \/ Engine
    \/ Output
    \/ \E i \in DOMAIN service_task : service_recv(i) \/ service_send(i)

ImapSpec == ImapInit /\ [][ImapNext]_vars

\* ------------------------- secret_manager.rs Oauth2Manager, SecretHandler

\* The tokens the authorization server issues are numbered from 1; 0 is
\* AccessToken::new("") and no token read yet.
HandlerIds == 1..MaxHandles

Handle(pc, got) == [pc |-> pc, got |-> got]

\* A task calls secret() or refresh() on its handle: self.manager.lock() is
\* the first thing either does.
handler_call(h) ==
    /\ handler[h].pc = "idle"
    /\ \E op \in {"lock_secret", "lock_refresh"} :
          handler' = [handler EXCEPT ![h].pc = op]
    /\ UNCHANGED <<engine_vars, mapped, stdin_vars, secret_vars, imap_vars, smtp,
                   service_report, manager, token_server>>

\* Mutant: the manager is shared without a mutex.
handler_lock_NoMutex(h) ==
    /\ handler[h].pc \in {"lock_secret", "lock_refresh"}
    /\ manager' = [manager EXCEPT !.locked_by = h]
    /\ handler' = [handler EXCEPT ![h].pc =
                      IF @ = "lock_secret" THEN "secret" ELSE "refresh"]
    /\ UNCHANGED <<engine_vars, mapped, stdin_vars, secret_vars, imap_vars, smtp,
                   service_report, token_server>>

\* self.manager.lock().await: the mutex is free and the task gets its guard.
handler_lock(h) ==
    /\ handler[h].pc \in {"lock_secret", "lock_refresh"}
    /\ manager.locked_by = 0
    /\ manager' = [manager EXCEPT !.locked_by = h]
    /\ handler' = [handler EXCEPT ![h].pc =
                      IF @ = "lock_secret" THEN "secret" ELSE "refresh"]
    /\ UNCHANGED <<engine_vars, mapped, stdin_vars, secret_vars, imap_vars, smtp,
                   service_report, token_server>>

\* Oauth2Manager::secret under the guard: self.access_token.secret().clone();
\* the guard is dropped at the end of the statement.
handler_secret(h) ==
    /\ handler[h].pc = "secret"
    /\ manager.locked_by = h
    /\ handler' = [handler EXCEPT ![h] = Handle("idle", manager.access_token)]
    /\ manager' = [manager EXCEPT !.locked_by = 0]
    /\ UNCHANGED <<engine_vars, mapped, stdin_vars, secret_vars, imap_vars, smtp,
                   service_report, token_server>>

\* Oauth2Manager::refresh under the guard: the refresh-token exchange comes
\* back with a new access token, which is stored, or it fails and the unwrap
\* panics: the task unwinds, its guard is dropped and the token stays.
handler_refresh(h) ==
    /\ handler[h].pc = "refresh"
    /\ manager.locked_by = h
    /\ \/ /\ token_server < MaxTokens
          /\ token_server' = token_server + 1
          /\ manager' = [access_token |-> token_server + 1, locked_by |-> 0]
          /\ handler' = [handler EXCEPT ![h].pc = "idle"]
       \/ /\ manager' = [manager EXCEPT !.locked_by = 0]
          /\ handler' = [handler EXCEPT ![h].pc = "panicked"]
          /\ UNCHANGED token_server
    /\ UNCHANGED <<engine_vars, mapped, stdin_vars, secret_vars, imap_vars, smtp,
                   service_report>>

\* Oauth2Manager::new has made its first refresh, SecretHandler::new has
\* wrapped the manager and every task has its clone of the handler.
SecretInit ==
    /\ QuietScenario
    /\ Start
    /\ NoMapper
    /\ NoStdin
    /\ NoSecret
    /\ NoImap
    /\ NoSmtp
    /\ NoReports
    /\ manager = [access_token |-> 1, locked_by |-> 0]
    /\ handler = [h \in HandlerIds |-> Handle("idle", 0)]
    /\ token_server = 1

SecretNext ==
    \E h \in HandlerIds :
        handler_call(h) \/ handler_lock(h) \/ handler_secret(h) \/ handler_refresh(h)

SecretSpec == SecretInit /\ [][SecretNext]_vars

\* ------------------------------------------------ services/alarm.rs Alarm

Alarm == "Alarm"

OneAlarm == <<add_service(s_test, Alarm)>>

\* u64::MAX, at a width TLC can count in: the model's u64 has U64Bits bits.
U64Bits == 8
U64_MAX == 2 ^ U64Bits - 1

Digits == <<"0", "1", "2", "3", "4", "5", "6", "7", "8", "9">>

\* char::to_digit(10).
to_digit(c) == CHOOSE v \in 0..9 : Digits[v + 1] = c

\* str::parse::<u64>: an optional "+", then one decimal digit at least and
\* digits only, of a value no greater than u64::MAX.
parse_u64(word) ==
    LET digits == IF word # <<>> /\ Head(word) = "+" THEN Tail(word) ELSE word
        Value[j \in 0..Len(digits)] ==
            IF j = 0 THEN 0
            ELSE IF Value[j - 1] > U64_MAX THEN Value[j - 1]
            ELSE Value[j - 1] * 10 + to_digit(digits[j])
    IN  IF digits = <<>> \/ \E j \in DOMAIN digits : \A v \in 0..9 : Digits[v + 1] # digits[j]
        THEN [ok |-> FALSE, value |-> 0]
        ELSE IF Value[Len(digits)] > U64_MAX
        THEN [ok |-> FALSE, value |-> 0]
        ELSE [ok |-> TRUE, value |-> Value[Len(digits)]]

\* Words as sequences of characters; the text of the format error stands as
\* one character.
alarm_name == <<"n">>
format_error == <<"format error">>

\* The body of the format error ("Expected args: <name> <minutes:
\* POSITIVE_NUMBER>"), a negative number as the texts of Process are.
ExpectedArgsText == -4

\* The requests sent to the Alarm: a name and minutes (plain, signed, too
\* many for the product with 60, too many for a u64, negative), a name
\* alone, and no argument.
AlarmTemplates ==
    {<<user_allowed, s_test, args>> :
        args \in {<<alarm_name, <<"1">>>>,
                  <<alarm_name, <<"+", "2">>>>,
                  <<alarm_name, <<"9">>>>,
                  <<alarm_name, <<"9", "9", "9">>>>,
                  <<alarm_name, <<"-", "1">>>>,
                  <<alarm_name>>,
                  <<>>}}

\* if let [name, minutes] = args.as_slice() { if let Ok(minutes) =
\* minutes.parse::<u64>() { .. } }
is_alarm(args) == Len(args) = 2 /\ parse_u64(args[2]).ok

\* input.recv().await? of Alarm and what follows: for a name and minutes a
\* task is spawned with a clone of the output sender and the response, and
\* the worker receives again; otherwise the worker sends a format error.
alarm_recv(i) ==
    /\ service_configs[i].service = Alarm
    /\ service_task[i].pc = "recv"
    /\ LET result == RecvResult(service_queue[i], ServiceSenderAlive(i))
           req == Head(service_queue[i])
       IN  /\ result # "empty"
           /\ IF result = "closed"
              THEN /\ service_task' = [service_task EXCEPT
                                          ![i] = Task("disconnected", NoMessage)]
                   /\ service_queue' = [service_queue EXCEPT ![i] = <<>>]
                   /\ UNCHANGED child_task
              ELSE /\ service_queue' = [service_queue EXCEPT ![i] = Tail(@)]
                   /\ IF is_alarm(req.args)
                      THEN /\ child_task' = Append(child_task, Task("sleep", req))
                           /\ UNCHANGED service_task
                      ELSE /\ service_task' =
                                 [service_task EXCEPT ![i] =
                                     Task("send", [response(req) EXCEPT
                                                      !.args = <<format_error>>,
                                                      !.body = ExpectedArgsText])]
                           /\ UNCHANGED child_task
    /\ UNCHANGED <<config_vars, connector_vars, services, output_sender, loop_pc, message,
                   input_queue, output_queue, input_task, output_task,
                   ext_in_open, ext_out_alive, script, received, enqueued,
                   delivered, log>>

\* output.send(response).await? of Alarm.
alarm_send(i) ==
    /\ service_configs[i].service = Alarm
    /\ service_task[i].pc = "send"
    /\ LET result == SendResult(output_queue, OutputReceiverAlive)
       IN  /\ result # "full"
           /\ output_queue' = IF result = "ok"
                              THEN Append(output_queue, service_task[i].message)
                              ELSE output_queue
           /\ service_task' = [service_task EXCEPT ![i] =
                                  Task(IF result = "ok" THEN "recv" ELSE "disconnected",
                                       NoMessage)]
           /\ service_queue' = IF result = "ok" THEN service_queue
                               ELSE [service_queue EXCEPT ![i] = <<>>]
    /\ UNCHANGED <<config_vars, connector_vars, child_task, services, output_sender, loop_pc,
                   message, input_queue, input_task, output_task, ext_in_open,
                   ext_out_alive, script, received, enqueued, delivered, log>>

\* minutes * 60 in a u64 overflows.
SecsOverflow(minutes) == minutes * 60 > U64_MAX

\* The spawned task is polled: Duration::from_secs(minutes * 60) and the
\* sleep, after which the task has its response to send.  A product that
\* overflows panics in a build with overflow checks, and the task unwinds
\* and drops its sender; it wraps in a build without, and the task sleeps
\* the wrapped time.
alarm_wake(c) ==
    /\ child_task[c].pc = "sleep"
    /\ LET req == child_task[c].message
           minutes == parse_u64(req.args[2]).value
           awake == Task("send", [response(req) EXCEPT !.args = <<req.args[1]>>])
       IN  \/ child_task' = [child_task EXCEPT ![c] = awake]
           \/ /\ SecsOverflow(minutes)
              /\ child_task' = [child_task EXCEPT ![c] = Task("panicked", NoMessage)]
    /\ UNCHANGED <<config_vars, connector_vars, services, output_sender, loop_pc, message,
                   input_queue, output_queue, service_queue, input_task,
                   output_task, service_task, ext_in_open, ext_out_alive, script,
                   received, enqueued, delivered, log>>

\* An engine with one Alarm and its in-memory connectors.
AlarmInit ==
    /\ service_configs = OneAlarm
    /\ input_mapping = FALSE
    /\ input_filtering = FALSE
    /\ producer = [templates |-> AlarmTemplates, max |-> MaxMsgs]
    /\ sink_drains = TRUE
    /\ Start
    /\ Detached

AlarmNext ==
    \/ Engine
    \/ Input
    \/ Output
    \/ \E i \in DOMAIN service_task : alarm_recv(i) \/ alarm_send(i)
    \/ \E c \in DOMAIN child_task : alarm_wake(c) \/ child_send(c)
    \/ ext_input_close
    \/ ext_output_drop

AlarmSpec == AlarmInit /\ [][AlarmNext]_vars

\* ------------------------------- Engine::load_service and the supervisors

\* Mutant: the supervisor unwraps the join result, so it logs nothing for a
\* worker that panicked.
service_join_Unwinds(i) ==
    /\ service_task[i].pc \in {"finished", "disconnected"}
    /\ \A j \in DOMAIN service_report : service_report[j].worker # i
    /\ service_report' = Append(service_report,
                                [worker |-> i,
                                 state |-> log_join_result(service_task[i].pc)])
    /\ UNCHANGED <<engine_vars, mapped, stdin_vars, secret_vars, imap_vars, smtp,
                   handler_vars>>

\* Engine::load_service's supervisor: the worker's task is joined and
\* log_join_result logs how it ended; the supervisor's own task ends there.
service_join(i) ==
    /\ service_task[i].pc \notin Running
    /\ \A j \in DOMAIN service_report : service_report[j].worker # i
    /\ service_report' = Append(service_report,
                                [worker |-> i,
                                 state |-> log_join_result(service_task[i].pc)])
    /\ UNCHANGED <<engine_vars, mapped, stdin_vars, secret_vars, imap_vars, smtp,
                   handler_vars>>

SupervisedTemplates == {<<user_allowed, s_test>>, <<user_allowed, e_test>>}

\* An Echo and an EchoOnce, each followed with its supervisor, as are the two
\* connectors.
SuperInit ==
    /\ service_configs = TwoServices
    /\ input_mapping = FALSE
    /\ input_filtering = FALSE
    /\ producer = [templates |-> SupervisedTemplates, max |-> MaxMsgs - 1]
    /\ sink_drains = TRUE
    /\ Start
    /\ Detached

SuperNext ==
    \/ Engine
    \/ Input
    \/ Output
    \/ \E i \in DOMAIN service_task : service_recv(i) \/ service_send(i)
    \/ Failure
    \/ input_join
    \/ \E i \in DOMAIN service_task : service_join(i)

\* The runtime polls a supervisor whose inner task has ended.
SuperSpec ==
    /\ SuperInit /\ [][SuperNext]_vars
    /\ WF_vars(input_join)
    /\ WF_vars(output_join)
    /\ \A i \in WorkerIds : WF_vars(i \in DOMAIN service_task /\ service_join(i))

\* ------------------------------------------- connectors/smtp.rs SmtpClient

\* Users as the mail sink reads them: an address, and a name that is none.
user_mail == <<"u", "@", "d">>
user_plain == <<"u">>

\* message.user.parse::<Address>() is Ok: a local part, one "@" and a domain.
is_address(user) ==
    \E at \in DOMAIN user :
        /\ user[at] = "@"
        /\ 1 < at /\ at < Len(user)
        /\ \A j \in DOMAIN user : user[j] = "@" => j = at

\* Two services that answer once each, so that the sink gets two messages
\* and the output queue closes after them.
TwoOnce == <<add_service(s_test, EchoOnce), add_service(e_test, EchoOnce)>>

SmtpTemplates ==
    {<<user, name>> : user \in {user_mail, user_plain}, name \in {s_test, e_test}}

\* What mailer.send(email) may come to: the server fails no more than
\* MaxFailures sends of a run, with a challenge or with another error.
SendOutcomes ==
    IF smtp.failures < MaxFailures THEN {"ok", "challenge", "error"} ELSE {"ok"}

\* Mutant: the send is tried again once only.
RetriesSend_Once(outcome) ==
    outcome = "challenge" /\ secret_type = "AccessToken" /\ ~smtp.retrying

\* Err(err) if format!("{}", err).contains("challenge") &&
\* secret_manager.secret_type() == SecretType::AccessToken
RetriesSend(outcome) == outcome = "challenge" /\ secret_type = "AccessToken"

\* Mutant: a message the sink cannot send ends its run.
AfterSendFailure_Returns == "finished"

\* Where run goes on after a message it could not send: the outer loop's
\* receiver.recv().
AfterSendFailure == "recv"

\* message_to_email and the inner loop of SmtpClient::run, one mailer.send
\* at a time: a message whose user is no address is dropped; a sent email
\* ends the loop; a challenge with an access token refreshes the credential
\* and the loop sends the same email again; another error is logged and ends
\* the loop.
smtp_send ==
    /\ output_task.pc = "send"
    /\ IF ~smtp.retrying /\ ~is_address(output_task.message.user)
       THEN /\ smtp' = [smtp EXCEPT !.tries = Append(@, <<"invalid">>)]
            /\ output_task' = OutputTask(AfterSendFailure, NoMessage)
            /\ UNCHANGED <<delivered, refreshes>>
       ELSE \E outcome \in SendOutcomes :
              LET tries == IF smtp.retrying
                           THEN [smtp.tries EXCEPT ![Len(smtp.tries)] = Append(@, outcome)]
                           ELSE Append(smtp.tries, <<outcome>>)
                  retry == RetriesSend(outcome)
              IN  /\ smtp' = [retrying |-> retry,
                              failures |-> IF outcome = "ok" THEN smtp.failures
                                           ELSE smtp.failures + 1,
                              tries |-> tries]
                  /\ refreshes' = IF retry THEN refreshes + 1 ELSE refreshes
                  /\ delivered' = IF outcome = "ok"
                                  THEN Append(delivered, output_task.message)
                                  ELSE delivered
                  /\ output_task' = IF retry THEN output_task
                                    ELSE IF outcome = "ok"
                                         THEN OutputTask("recv", NoMessage)
                                         ELSE OutputTask(AfterSendFailure, NoMessage)
    /\ UNCHANGED <<config_vars, mapped, stdin_vars, apart_vars, secret_type, imap_vars, child_task,
                   services, output_sender, loop_pc, message, input_queue,
                   output_queue, service_queue, input_task, service_task,
                   ext_in_open, ext_out_alive, script, received, enqueued, log>>

\* An engine with SmtpClient as its output, fed by an in-memory input.
SmtpInit ==
    /\ service_configs = TwoOnce
    /\ input_mapping = FALSE
    /\ input_filtering = FALSE
    /\ producer = [templates |-> SmtpTemplates, max |-> MaxMsgs]
    /\ sink_drains = TRUE
    /\ Start
    /\ NoMapper
    /\ NoStdin
    /\ NoImap
    /\ secret_type \in {"Password", "AccessToken"}
    /\ refreshes = 0
    /\ smtp = [retrying |-> FALSE, failures |-> 0, tries |-> <<>>]
    /\ NoReports
    /\ NoHandler

SmtpNext ==
    \/ Input
    \/ ext_input_close
    \/ Engine
    \/ \E i \in DOMAIN service_task : service_recv(i) \/ service_send(i)
    \/ output_recv
    \/ smtp_send
    \/ output_join

SmtpSpec == SmtpInit /\ [][SmtpNext]_vars

\* ---------------------------------------------------- claims: vocabulary

Terminal == {"finished", "disconnected", "panicked"}

\* The k-th message of the producer as the engine is meant to see it.
Mapped(k) ==
    IF input_mapping THEN service_name_first_char_to_lowercase(script[k])
    ELSE script[k]

\* The dispatch loop has read the k-th message and is through with it.
Handled(k) ==
    /\ k <= received
    /\ ~(k = received /\ loop_pc = "process")

RegisteredNames == {service_configs[i].name : i \in DOMAIN service_configs}

\* The worker whose queue serves a registered name, and the name's allow-list:
\* those of its last registration.
WorkerOf(name) == LastIndex(name)
WhitelistOf(name) == service_configs[LastIndex(name)].whitelist

\* The k-th message is for a registered service that admits its user.
Admitted(k) ==
    /\ Mapped(k).service_name \in RegisteredNames
    /\ LET whitelist == WhitelistOf(Mapped(k).service_name)
       IN  whitelist.some => Mapped(k).user \in whitelist.users

\* The k-th message passes the configured filter.
PassesFilter(k) ==
    input_filtering => ~starts_with(Mapped(k).service_name, <<"s", "-">>)

Copies(seq, m) == Cardinality({j \in DOMAIN seq : seq[j] = m})

HasLog(event, m) == \E j \in DOMAIN log : log[j] = [event |-> event, message |-> m]

\* ------------------------------------------------------------------ C1

\* C1 (as stated): every message the dispatch loop has handled whose mapped
\* service_name is registered and whose user the service admits has exactly
\* one copy on that service's queue and none on any other queue.
C1_ExactlyOneCopy ==
    \A k \in 1..Len(script) :
        (Handled(k) /\ Admitted(k)) =>
            \A i \in DOMAIN enqueued :
                Copies(enqueued[i], Mapped(k)) =
                    IF i = WorkerOf(Mapped(k).service_name) THEN 1 ELSE 0

\* C1 (amended): the same for a message that also passes the configured
\* filter, sent to a worker that still holds its receiver when the enqueue
\* completes; if the worker is gone by then, the message is dropped with the
\* "removed service" warning and is on no queue.  No queue but the service's
\* ever holds a copy.
C1_ExactlyOneCopyIfWorkerAlive ==
    \A k \in 1..Len(script) :
        (Handled(k) /\ Admitted(k) /\ PassesFilter(k)) =>
            LET m == Mapped(k)
                w == WorkerOf(m.service_name)
            IN  /\ \A i \in DOMAIN enqueued \ {w} : Copies(enqueued[i], m) = 0
                /\ \/ /\ Copies(enqueued[w], m) = 1
                      /\ HasLog("processing", m)
                      /\ ~HasLog("removed", m)
                   \/ /\ Copies(enqueued[w], m) = 0
                      /\ HasLog("removed", m)
                      /\ ~HasLog("processing", m)
                      /\ ~ServiceReceiverAlive(w)
                /\ ServiceReceiverAlive(w) => Copies(enqueued[w], m) = 1

\* A mapped message (its service_name was rewritten) was enqueued on its
\* service's queue, with another service registered.
C1_Witness ==
    \E k \in 1..Len(script) :
        /\ Handled(k) /\ Admitted(k) /\ PassesFilter(k)
        /\ Mapped(k) # script[k]
        /\ Len(service_configs) = 2
        /\ Copies(enqueued[WorkerOf(Mapped(k).service_name)], Mapped(k)) = 1

\* ------------------------------------------------------------------ C2

ProgramStep ==
    \/ Engine
    \/ input_eof
    \/ input_send
    \/ Output
    \/ \E i \in DOMAIN service_task : Service(i)
    \/ \E c \in DOMAIN child_task : Child(c)

NoPanic ==
    /\ input_task.pc # "panicked"
    /\ output_task.pc # "panicked"
    /\ \A i \in DOMAIN service_task : service_task[i].pc # "panicked"

\* The producer dropped its sender before sending anything, every service is
\* an Echo (it runs until one of its endpoints is closed), nothing panicked,
\* and the sink has a consumer that reads.
ClosedImmediately ==
    /\ ~ext_in_open
    /\ script = <<>>
    /\ \A i \in DOMAIN service_configs : service_configs[i].service = Echo
    /\ NoPanic
    /\ sink_drains
    /\ ext_out_alive

\* C3: with an input that closes immediately, a draining sink and services
\* that follow the contract, run() returns: when no task can take a step any
\* more, run() has returned.
C3_RunReturnsAfterInputCloses ==
    (ClosedImmediately /\ ~ENABLED ProgramStep) => loop_pc = "returned"

\* ------------------------------------------------------------------ C4

\* Every worker has ended, and every child task a worker spawned.
AllWorkersDone ==
    /\ loop_pc # "load"
    /\ \A i \in DOMAIN service_task : service_task[i].pc \in Terminal
    /\ \A c \in DOMAIN child_task : child_task[c].pc = "done"

\* C4: run() holds no output sender once the services are spawned, and once
\* every worker has ended, with a sink whose consumer reads, run() returns.
C4_OutputClosesAfterWorkers ==
    /\ [](loop_pc # "load" => ~output_sender)
    /\ (AllWorkersDone /\ sink_drains) ~> (loop_pc = "returned")

\* Every worker has ended with messages still buffered in the output queue,
\* the sink alive and run() in its loop.
C4_Witness ==
    /\ AllWorkersDone
    /\ service_task # <<>>
    /\ sink_drains
    /\ output_queue # <<>>
    /\ output_task.pc \in Running
    /\ loop_pc \in {"select", "process"}

\* ------------------------------------------------------------------ C5

\* C5: once the output supervisor has completed, run() returns.
C5_ReturnsAfterOutputTask ==
    output_task.joined ~> (loop_pc = "returned")

\* The output supervisor has completed while process_message waits for room
\* in a full service queue.
C5_Witness ==
    /\ output_task.joined
    /\ loop_pc = "process"
    /\ Len(service_queue[WorkerOf(message.service_name)]) = Capacity
    /\ ServiceReceiverAlive(WorkerOf(message.service_name))

\* ------------------------------------------------------------------ C6

Ended(i) == service_task[i].pc \in Terminal

\* The sink's own side is intact: its consumer holds the receiver and the
\* connector has not panicked, so only a closed output queue can end it.
SinkIntact == ext_out_alive /\ output_task.pc # "panicked"

Target == WorkerOf(message.service_name)

\* C7: while run() is in its loop the registry holds every handle, whatever
\* became of the workers; an enqueue that completes after its worker has
\* gone puts the message on no queue, logs the "removed service" warning and
\* leaves the loop at its select.
C7_DeadWorkerDropsMessage ==
    /\ [](loop_pc \in {"select", "process"} =>
            /\ DOMAIN services = RegisteredNames
            /\ \A n \in RegisteredNames : services[n].input_sender = WorkerOf(n))
    /\ [][(/\ loop_pc = "process"
           /\ Ended(Target)
           /\ loop_pc' # "process")
            => /\ loop_pc' = "select"
               /\ services' = services
               /\ enqueued' = enqueued
               /\ service_queue' = service_queue
               /\ log' = Append(log, [event |-> "removed", message |-> message])]_vars

\* A message for a dead worker was dropped and a later one was enqueued on
\* another worker's queue.
C7_Witness ==
    \E a, b \in DOMAIN log :
        /\ a < b
        /\ log[a].event = "removed"
        /\ log[b].event = "processing"
        /\ log[a].message.service_name # log[b].message.service_name
        /\ Ended(WorkerOf(log[a].message.service_name))

\* ------------------------------------------------------------------ C8

\* The messages the input connector has sent and the sink has not taken.
InFlight ==
    Len(input_queue)
    + (IF loop_pc = "process" THEN 1 ELSE 0)
    + Len(service_queue[1])
    + (IF service_task[1].pc = "send" THEN 1 ELSE 0)
    + Len(output_queue)

\* The input connector holds a message and the input queue has no room.
InputSendBlocked ==
    /\ input_task.pc = "send"
    /\ InputReceiverAlive
    /\ Len(input_queue) >= Capacity

StalledSink ==
    /\ service_configs = OneEcho
    /\ ~sink_drains
    /\ loop_pc # "load"

\* C8 (as stated): with a sink that never drains and one forwarding service,
\* at most C + C + 1 messages are in flight when the input's send blocks.
C8_InFlightTwoQueues ==
    (StalledSink /\ InputSendBlocked) => InFlight <= Capacity + Capacity + 1

\* C8 (amended): at most C + C + C + 2 are: the three queues full, one
\* message in process_message and one in the worker.
C8_InFlightThreeQueues ==
    (StalledSink /\ InputSendBlocked) => InFlight <= 3 * Capacity + 2

C8_Witness ==
    /\ StalledSink
    /\ InputSendBlocked
    /\ InFlight = 3 * Capacity + 2

\* ------------------------------------------------------------------ C9

\* process_message waits for room in its service's full queue.
EnqueueSuspended ==
    /\ loop_pc = "process"
    /\ ~Ended(Target)
    /\ Len(service_queue[Target]) >= Capacity

IsPrefix(a, b) == Len(a) <= Len(b) /\ SubSeq(b, 1, Len(a)) = a
IsSuffix(a, b) == Len(a) <= Len(b) /\ SubSeq(b, Len(b) - Len(a) + 1, Len(b)) = a

\* C9: while process_message waits on a full queue the loop keeps its
\* message and reads nothing from the input queue; while the input queue is
\* full the input connector keeps its message, still sending.
C9_FullQueueSuspendsLoop ==
    /\ [][EnqueueSuspended =>
            /\ loop_pc' = "process"
            /\ message' = message
            /\ received' = received
            /\ enqueued' = enqueued
            /\ log' = log
            /\ IsPrefix(input_queue, input_queue')]_vars
    /\ [][InputSendBlocked =>
            /\ input_task' \in {input_task, Task("panicked", NoMessage)}
            /\ IsSuffix(input_queue', input_queue)]_vars

\* The loop waits on a full service queue, the input queue is full behind it
\* and the input connector waits too.
C9_Witness ==
    /\ EnqueueSuspended
    /\ InputSendBlocked

\* ----------------------------------------------------------------- C10

Unregistered(k) == Mapped(k).service_name \notin RegisteredNames

Bodies(seq) == {seq[j].body : j \in DOMAIN seq}

\* C10: a message for no registered service is put on no service queue, is
\* never sent by process_message, reaches neither the output queue nor the
\* sink, and reading it leaves the loop at its select.
C10_UnknownServiceDropped ==
    /\ [](\A k \in 1..received :
            Unregistered(k) =>
                /\ \A i \in DOMAIN enqueued : k \notin Bodies(enqueued[i])
                /\ ~(loop_pc = "process" /\ message.body = k)
                /\ k \notin Bodies(output_queue) \cup Bodies(delivered)
                /\ output_task.message.body # k)
    /\ [][(received' = received + 1 /\ Unregistered(received'))
            => loop_pc' = "select"]_vars

\* An unknown message was dropped and a later message was enqueued.
C10_Witness ==
    \E k \in 1..received :
        /\ Unregistered(k)
        /\ \E i \in DOMAIN enqueued : \E j \in DOMAIN enqueued[i] :
               enqueued[i][j].body > k

\* ----------------------------------------------------------------- C11

\* The k-th message is for a registered service whose allow-list lacks its
\* user.
Denied(k) ==
    /\ Mapped(k).service_name \in RegisteredNames
    /\ LET whitelist == WhitelistOf(Mapped(k).service_name)
       IN  whitelist.some /\ Mapped(k).user \notin whitelist.users

\* C11: a message whose user is not on its service's allow-list is put on no
\* queue, is never sent by process_message and reaches neither the output
\* queue nor the sink; it is logged as not allowed, and reading it changes
\* nothing else: the loop is back at its select, the registry, the queues and
\* every task are as before.  A later message for the same service from a
\* member, once handled by a worker still running, is on that worker's queue
\* exactly once, and what the sink sends on for such a service is the
\* message as the engine saw it, from a member.
C11_DeniedUserDropped ==
    /\ [](\A k \in 1..received :
            Denied(k) =>
                /\ \A i \in DOMAIN enqueued : k \notin Bodies(enqueued[i])
                /\ ~(loop_pc = "process" /\ message.body = k)
                /\ k \notin Bodies(output_queue) \cup Bodies(delivered)
                /\ output_task.message.body # k
                /\ PassesFilter(k) => HasLog("not_allowed", Mapped(k)))
    /\ [][(received' = received + 1 /\ Denied(received'))
            => /\ loop_pc' = "select"
               /\ services' = services
               /\ service_queue' = service_queue
               /\ service_task' = service_task
               /\ input_task' = input_task
               /\ output_task' = output_task
               /\ output_queue' = output_queue]_vars
    /\ [](\A k \in 1..received : \A j \in 1..received :
            (/\ k < j
             /\ Denied(k)
             /\ Mapped(j).service_name = Mapped(k).service_name
             /\ Handled(j) /\ Admitted(j) /\ PassesFilter(j)
             /\ ~Ended(WorkerOf(Mapped(j).service_name)))
                => Copies(enqueued[WorkerOf(Mapped(j).service_name)], Mapped(j)) = 1)
    /\ [](\A j \in DOMAIN delivered :
            (/\ delivered[j].service_name \in RegisteredNames
             /\ WhitelistOf(delivered[j].service_name).some)
                => /\ delivered[j] = Mapped(delivered[j].body)
                   /\ Admitted(delivered[j].body))

\* A message was denied and a later one for the same service, from a member,
\* has reached the sink.
C11_Witness ==
    \E k \in 1..received : \E j \in 1..received :
        /\ k < j
        /\ Denied(k)
        /\ HasLog("not_allowed", Mapped(k))
        /\ Mapped(j).service_name = Mapped(k).service_name
        /\ Copies(delivered, Mapped(j)) = 1

\* ----------------------------------------------------------------- C12

\* What the first-character mapping is to make of the names the producer
\* uses.
Lowered(name) ==
    IF name = S_test THEN s_test
    ELSE IF name = E_test THEN e_test
    ELSE name

\* The request a message came from, with nothing but its service_name
\* rewritten.
Rewritten(m) == [script[m.body] EXCEPT !.service_name = Lowered(@)]

\* C12: with the first-character mapping configured, every message on a
\* service's queue, in process_message or held by a worker is its request
\* with the service_name rewritten and every other field unchanged, and it is
\* on the queue of the service registered under the rewritten name; a
\* request for "S-test", once handled by a running worker, is on the queue of
\* the service registered as "s-test", rewritten to "s-test".
C12_MappedMessageRouted ==
    /\ [](input_mapping =>
            /\ \A i \in DOMAIN enqueued : \A j \in DOMAIN enqueued[i] :
                   /\ enqueued[i][j] = Rewritten(enqueued[i][j])
                   /\ service_configs[i].name = enqueued[i][j].service_name
            /\ \A i \in DOMAIN service_task :
                   service_task[i].pc = "send" =>
                       /\ service_task[i].message = Rewritten(service_task[i].message)
                       /\ service_configs[i].name = service_task[i].message.service_name
            /\ loop_pc = "process" => message = Rewritten(message))
    /\ [](input_mapping =>
            \A k \in 1..Len(script) :
                (/\ script[k].service_name = S_test
                 /\ Handled(k)
                 /\ script[k].user = user_allowed
                 /\ ~input_filtering
                 /\ ~Ended(WorkerOf(s_test)))
                    => Copies(enqueued[WorkerOf(s_test)],
                              [script[k] EXCEPT !.service_name = s_test]) = 1)

\* A request for "S-test" has come out of the sink as "s-test", otherwise
\* unchanged.
C12_Witness ==
    /\ input_mapping
    /\ \E k \in 1..Len(script) :
          /\ script[k].service_name = S_test
          /\ Copies(delivered, [script[k] EXCEPT !.service_name = s_test]) = 1

\* ----------------------------------------------------------------- C13

\* The configured filter (not starts_with "s-") returns false for the k-th
\* message as it is after the configured mapping.
Rejected(k) ==
    /\ input_filtering
    /\ starts_with(IF input_mapping THEN Lowered(script[k].service_name)
                   ELSE script[k].service_name, <<"s", "-">>)

\* The messages the workers hold.
HeldByWorkers == {service_task[i].message.body : i \in DOMAIN service_task}

\* C13: a message the filter rejects, judged on the mapped message, is on no
\* service queue, is never sent by process_message, is held by no worker and
\* reaches neither the output queue nor the sink, whatever its service_name
\* and user.
C13_RejectedMessageDropped ==
    \A k \in 1..received :
        Rejected(k) =>
            /\ \A i \in DOMAIN enqueued : k \notin Bodies(enqueued[i])
            /\ \A i \in DOMAIN service_queue : k \notin Bodies(service_queue[i])
            /\ ~(loop_pc = "process" /\ message.body = k)
            /\ k \notin HeldByWorkers
            /\ k \notin Bodies(output_queue) \cup Bodies(delivered)
            /\ output_task.message.body # k
            /\ \A j \in DOMAIN log : log[j].message.body # k

\* A request for "S-test" from an allowed user, which the filter accepts as
\* sent and rejects as mapped, was dropped, and a later request came out of
\* the sink.
C13_Witness ==
    \E k \in 1..received : \E j \in 1..received :
        /\ Rejected(k)
        /\ script[k].service_name = S_test
        /\ ~starts_with(script[k].service_name, <<"s", "-">>)
        /\ script[k].user = user_allowed
        /\ k < j
        /\ j \in Bodies(delivered)

\* ----------------------------------------------------------------- C14

Increasing(seq) ==
    \A a \in DOMAIN seq : \A b \in DOMAIN seq : a < b => seq[a].body < seq[b].body

\* What worker i has not handed on yet: the request it holds (a forwarding
\* worker sends on the request itself), then its queue.
Pending(i) ==
    IF service_task[i].pc = "send" /\ Forwards(service_configs[i].service)
    THEN <<service_task[i].message>> \o service_queue[i]
    ELSE service_queue[i]

\* The responses of one service among what the sink sent on.
ResponsesOf(name) == SelectSeq(delivered, LAMBDA m : m.service_name = name)

C14_EitherOrder ==
    \E a \in DOMAIN delivered : \E b \in DOMAIN delivered :
        /\ a < b
        /\ delivered[a].body > delivered[b].body
        /\ delivered[a].service_name # delivered[b].service_name

\* ----------------------------------------------------------------- C15

\* C15: with no service registered run() returns, whatever the input does.
C15_NoServicesReturns ==
    (service_configs = NoServices) ~> (loop_pc = "returned")

\* run() has returned with no service registered while the producer still
\* holds its sender and has sent nothing, the input connector waiting.
C15_Witness ==
    /\ service_configs = NoServices
    /\ loop_pc = "returned"
    /\ ext_in_open
    /\ script = <<>>
    /\ input_task.pc = "recv"
    /\ ext_out_alive

\* ----------------------------------------------------------------- C16

\* The input connector's send has come to an end other than a panic.
InputSendEnds ==
    /\ input_task.pc = "send"
    /\ input_task' # input_task
    /\ input_task'.pc # "panicked"

\* Worker i's send has come to an end other than a panic.
WorkerSendEnds(i) ==
    /\ service_task[i].pc = "send"
    /\ service_task'[i] # service_task[i]
    /\ service_task'[i].pc # "panicked"

Forwarding(i) == service_configs[i].service \in {Echo, EchoOnce}

\* C16: a send ends in one of two ways.  If the channel's receiver has been
\* dropped it fails: nothing is buffered and the sender (the input connector,
\* a forwarding worker) ends disconnected, process_message logs its warning.
\* Otherwise it succeeds: the queue had room and the message is appended.  So
\* while the receiver lives and the queue is full the send does not end, and
\* a send that waited on a full queue fails once the receiver is dropped.
C16_SendFailsIffReceiverDropped ==
    /\ [][InputSendEnds =>
            IF loop_pc = "returned"
            THEN /\ input_task'.pc = "disconnected"
                 /\ input_queue' = input_queue
            ELSE /\ input_task'.pc = "recv"
                 /\ Len(input_queue) < Capacity
                 /\ input_queue' = Append(input_queue, input_task.message)]_vars
    /\ [][\A i \in DOMAIN service_task :
            WorkerSendEnds(i) =>
                IF output_task.pc \in Terminal
                THEN /\ Forwarding(i) => service_task'[i].pc = "disconnected"
                     /\ output_queue' = output_queue
                ELSE /\ service_task'[i].pc \notin {"disconnected", "panicked"}
                     /\ Len(output_queue) < Capacity
                     /\ output_queue' = Append(output_queue, service_task[i].message)]_vars
    /\ [][(loop_pc = "process" /\ loop_pc' # "process") =>
            IF Ended(Target)
            THEN /\ log' = Append(log, [event |-> "removed", message |-> message])
                 /\ service_queue' = service_queue
            ELSE /\ log' = Append(log, [event |-> "processing", message |-> message])
                 /\ Len(service_queue[Target]) < Capacity
                 /\ service_queue' = [service_queue EXCEPT
                                         ![Target] = Append(@, message)]]_vars

\* The input connector's send has failed after waiting on a full queue: when
\* run() returned, the queue held a full buffer of unread messages and the
\* connector held one more.
C16_Witness ==
    /\ input_task.pc = "disconnected"
    /\ loop_pc = "returned"
    /\ Len(script) = received + Capacity + 1

\* ----------------------------------------------------------------- C17

\* The output connector's recv has come to an end other than a panic.
OutputRecvEnds ==
    /\ output_task.pc = "recv"
    /\ output_task'.pc \notin {"recv", "panicked"}

\* Forwarding worker i's recv has come to an end other than a panic.
WorkerRecvEnds(i) ==
    /\ Forwarding(i)
    /\ service_task[i].pc = "recv"
    /\ service_task'[i].pc \notin {"recv", "panicked"}

\* Every clone of the output sender is gone: run()'s own, each worker's and
\* each child task's.
NoOutputSender ==
    /\ ~output_sender
    /\ \A i \in DOMAIN service_task : Ended(i)
    /\ \A c \in DOMAIN child_task : child_task[c].pc = "done"

\* The registry's sender to worker i is gone: run() has returned, or the
\* handle was replaced by a later registration of its name.
NoInboundSender(i) ==
    \/ loop_pc = "returned"
    \/ loop_pc # "load" /\ WorkerOf(service_configs[i].name) # i

\* C17: a recv ends in one of two ways.  If the buffer holds a message, the
\* oldest one is yielded, senders or no senders.  Otherwise every sender has
\* been dropped and the recv fails: the receiver ends disconnected.  So a
\* recv on an empty buffer with a sender alive does not end.
C17_RecvFailsIffClosedAndEmpty ==
    /\ [][OutputRecvEnds =>
            IF output_queue # <<>>
            THEN /\ output_task'.pc = "send"
                 /\ output_task'.message = Head(output_queue)
                 /\ output_queue' = Tail(output_queue)
            ELSE /\ NoOutputSender
                 /\ output_task'.pc = "disconnected"]_vars
    /\ [][\A i \in DOMAIN service_task :
            WorkerRecvEnds(i) =>
                IF service_queue[i] # <<>>
                THEN /\ service_task'[i].pc = "send"
                     /\ service_task'[i].message = Head(service_queue[i])
                     /\ service_queue'[i] = Tail(service_queue[i])
                ELSE /\ NoInboundSender(i)
                     /\ service_task'[i].pc = "disconnected"]_vars

\* The only worker answered once and ended, its answer in the buffer of the
\* output queue: the sink was still handed the answer, and then the closed
\* channel.
C17_Witness ==
    /\ service_configs = OneEchoOnce
    /\ loop_pc # "load"
    /\ service_task[1].pc = "finished"
    /\ Len(delivered) = 1
    /\ delivered[1] = script[delivered[1].body]
    /\ output_task.pc = "disconnected"

\* ----------------------------------------------------------------- C18

\* C18: the input queue, the output queue and every service queue buffer at
\* most Capacity messages, one capacity for all of them.
C18_QueuesWithinCapacity ==
    /\ Len(input_queue) <= Capacity
    /\ Len(output_queue) <= Capacity
    /\ \A i \in DOMAIN service_queue : Len(service_queue[i]) <= Capacity

\* Every queue is full at once, with senders waiting behind the input queue
\* and the service queue.
C18_Witness ==
    /\ Len(input_queue) = Capacity
    /\ Len(output_queue) = Capacity
    /\ service_queue # <<>>
    /\ \A i \in DOMAIN service_queue : Len(service_queue[i]) = Capacity
    /\ input_task.pc = "send"
    /\ loop_pc = "process"

\* ----------------------------------------------------------------- C20

\* C20: once the output connector has panicked, its supervisor completes and
\* run() returns.
C20_OutputPanicEndsRun ==
    (output_task.pc = "panicked") ~> (output_task.joined /\ loop_pc = "returned")

\* The output connector has panicked, its supervisor has not completed yet,
\* and process_message waits on the full queue of a running worker.
C20_Witness ==
    /\ output_task.pc = "panicked"
    /\ ~output_task.joined
    /\ EnqueueSuspended
    /\ input_task.pc \in Running

\* ----------------------------------------------------------------- C19

\* Worker i's recv has reported the closed channel.
WorkerRecvFails(i) ==
    /\ service_task[i].pc = "recv"
    /\ service_queue[i] = <<>>
    /\ NoInboundSender(i)
    /\ service_task'[i] # service_task[i]
    /\ service_task'[i].pc # "panicked"

\* Worker i's send has reported the closed channel.
WorkerSendFails(i) ==
    /\ WorkerSendEnds(i)
    /\ output_task.pc \in Terminal

\* C19 (as stated): a worker or connector whose recv or send on an engine
\* endpoint reports the closed channel ends there, disconnected; none goes
\* on running.
C19_ClosedChannelEndsWorker ==
    /\ [][\A i \in DOMAIN service_task :
            (WorkerRecvFails(i) \/ WorkerSendFails(i))
                => service_task'[i].pc = "disconnected"]_vars
    /\ [][(InputSendEnds /\ loop_pc = "returned")
            => input_task'.pc = "disconnected"]_vars
    /\ [][(OutputRecvEnds /\ output_queue = <<>>)
            => output_task'.pc = "disconnected"]_vars

\* ----------------------------------------------------------------- C21

\* C21 (as stated): once the input connector has panicked, run() returns,
\* whatever services are registered.
C21_InputPanicEndsRun ==
    (input_task.pc = "panicked") ~> (loop_pc = "returned")

\* ----------------------------------------------------------------- C22

\* C22 (as stated): once the external receiver of the sink is dropped, run()
\* returns, whether or not a service produces another response.
C22_SinkClosedEndsRun ==
    (~ext_out_alive) ~> (loop_pc = "returned")

\* The output connector ends with Ok in this step.
OutputFinishes == output_task.pc # "finished" /\ output_task'.pc = "finished"

\* C22 (amended): the output connector notices the dropped receiver only in a
\* send.  Once a response reaches the connector after the drop, the send
\* fails, the connector returns Ok, its supervisor completes and run()
\* returns; the connector never returns Ok from its recv.
C22_SinkClosedEndsRunOnNextResponse ==
    /\ (~ext_out_alive /\ output_task.pc = "send")
           ~> (output_task.joined /\ loop_pc = "returned")
    /\ [][OutputFinishes => (output_task.pc = "send" /\ ~ext_out_alive)]_vars

\* run() has returned because a response met the dropped receiver: the
\* connector finished, nothing panicked and nothing was delivered.
C22_Witness ==
    /\ loop_pc = "returned"
    /\ output_task.pc = "finished"
    /\ NoPanic
    /\ ~ext_out_alive
    /\ delivered = <<>>
    /\ Len(script) >= 1

\* ----------------------------------------------------------------- C23

\* Worker i's run returns in this step (it does not panic).
WorkerExits(i) ==
    /\ service_task[i].pc \in Running
    /\ service_task'[i].pc \notin Running \cup {"panicked"}

\* Worker i's run returns because its recv reported the closed channel.
ExitsOnRecv(i) ==
    /\ service_task[i].pc = "recv"
    /\ service_queue[i] = <<>>
    /\ service_task'[i].pc = "disconnected"

\* Worker i's run returns because its send reported the closed channel.
ExitsOnSend(i) ==
    /\ service_task[i].pc = "send"
    /\ output_task.pc \in Terminal
    /\ service_task'[i].pc = "disconnected"

\* A message leaves worker i's queue without the worker taking it.
LosesBuffered(i) ==
    /\ service_queue[i] # <<>>
    /\ service_queue'[i] # service_queue[i]
    /\ ~(service_task[i].pc = "recv" /\ service_queue'[i] = Tail(service_queue[i]))

AllWorkersExited ==
    \A i \in DOMAIN service_task : service_task[i].pc \in Terminal

\* C23 (as stated): once run() has returned the registry is gone, and every
\* worker still running takes the messages buffered in its queue, then gets
\* the closed channel from its recv and exits.
C23_WorkersDrainThenExit ==
    /\ [](loop_pc = "returned" => services = <<>>)
    /\ [][loop_pc = "returned" =>
            \A i \in DOMAIN service_task :
                /\ WorkerExits(i) => ExitsOnRecv(i)
                /\ service_task'[i].pc # "panicked" => ~LosesBuffered(i)]_vars
    /\ (loop_pc = "returned") ~> AllWorkersExited

\* C23 (amended): once run() has returned the registry is gone; the recv of a
\* worker still running yields the buffered messages first and then the
\* closed channel, and every worker exits: on that closed channel of its
\* recv, or before on the closed channel of its send of a response (the
\* output receiver is gone when run() returns), whatever its queue holds.
C23_WorkersExitAfterReturn ==
    /\ [](loop_pc = "returned" => services = <<>>)
    /\ [][loop_pc = "returned" =>
            \A i \in DOMAIN service_task :
                /\ WorkerExits(i) => (ExitsOnRecv(i) \/ ExitsOnSend(i))
                /\ (service_task'[i].pc # "panicked" /\ LosesBuffered(i))
                       => ExitsOnSend(i)
                /\ (service_task[i].pc = "recv" /\ service_queue[i] # <<>>
                      /\ service_task'[i].pc # "panicked")
                       => service_queue'[i] \in {service_queue[i],
                                                 Tail(service_queue[i])}]_vars
    /\ (loop_pc = "returned") ~> AllWorkersExited

\* run() has returned with a forwarding worker still waiting in its recv and
\* a message buffered in its queue.
C23_Witness ==
    /\ loop_pc = "returned"
    /\ \E i \in DOMAIN service_task :
          /\ Forwards(service_configs[i].service)
          /\ service_task[i].pc = "recv"
          /\ service_queue[i] # <<>>

\* ----------------------------------------------------------------- C24

\* The messages of a sequence that bear the name worker i is registered under.
NamedFor(i, seq) ==
    SelectSeq(seq, LAMBDA m : m.service_name = service_configs[i].name)

\* The message a task holds while it sends, as a sequence.
Held(task) == IF task.pc = "send" THEN <<task.message>> ELSE <<>>

\* The way of the messages admitted to worker i, newest last: what the sink
\* sent on, what the output connector holds, the output queue, what the
\* worker holds, and its inbound queue.
Pipeline(i) ==
    NamedFor(i, delivered) \o NamedFor(i, Held(output_task))
        \o NamedFor(i, output_queue) \o Held(service_task[i]) \o service_queue[i]

\* The sink is alive and its consumer reads; worker i is an Echo.
EchoWithLiveSink(i) ==
    /\ service_configs[i].service = Echo
    /\ service_task[i].pc # "panicked"
    /\ output_task.pc \in Running
    /\ ext_out_alive

\* C24: while the sink is alive, the messages admitted to an Echo are, one
\* copy each and in their order, what the sink has sent on followed by what
\* is still on its way; each is the input message as mapped, equal in all
\* five fields; and when no task can take a step, with a consumer that
\* reads, all of them have left the sink.
C24_EchoForwardsUnchanged ==
    \A i \in DOMAIN service_task :
        EchoWithLiveSink(i) =>
            /\ Pipeline(i) = enqueued[i]
            /\ \A j \in DOMAIN enqueued[i] :
                   /\ enqueued[i][j].body \in 1..Len(script)
                   /\ enqueued[i][j] = Mapped(enqueued[i][j].body)
                   /\ Copies(enqueued[i], enqueued[i][j]) = 1
            /\ (sink_drains /\ ~ENABLED ProgramStep)
                   => NamedFor(i, delivered) = enqueued[i]

\* Every request of the flood went through the Echo and left the sink, which
\* is still alive.
C24_Witness ==
    /\ service_configs = OneEcho
    /\ loop_pc = "select"
    /\ Len(script) = FloodMsgs
    /\ delivered = script
    /\ output_task.pc \in Running
    /\ ext_out_alive

\* ----------------------------------------------------------------- C25

\* The lowercase of a character, as Unicode has it for the characters used.
LowercaseOf(c) ==
    IF c = "S" THEN <<"s">>
    ELSE IF c = "I*" THEN <<"i", "*">>
    ELSE <<c>>

\* C25: the mapping applied to a message it has returned returns that
\* message; an empty service_name stays empty; of any other name the first
\* character is replaced by its lowercase and the rest is kept; user, args,
\* body and attachments are kept.
C25_FirstCharMappingIdempotent ==
    /\ Len(mapped) >= 3 => mapped[3] = mapped[2]
    /\ \A j \in 2..Len(mapped) :
          LET before == mapped[j - 1]
              after == mapped[j]
          IN  /\ after.user = before.user
              /\ after.args = before.args
              /\ after.body = before.body
              /\ after.attached_data = before.attached_data
              /\ before.service_name = <<>> => after.service_name = <<>>
              /\ before.service_name # <<>> =>
                     after.service_name =
                         LowercaseOf(Head(before.service_name))
                             \o Tail(before.service_name)

\* The mapping was applied twice to a message whose name begins with the
\* character that has a lowercase of two characters: the name grew by one.
C25_Witness ==
    /\ Len(mapped) = 3
    /\ Len(mapped[1].service_name) = MaxNameLen
    /\ Len(mapped[2].service_name) = MaxNameLen + 1
    /\ mapped[3] = mapped[2]

\* ----------------------------------------------------------------- C26

\* The connector has met the end of standard input and has ended there.
EndedAtEof ==
    /\ stdin = <<>>
    /\ input_task.pc \notin Running
    /\ input_task.pc # "disconnected"

\* C26 (as stated): at the end of standard input the connector's run returns
\* without a panic and the supervisor logs "finished", never "panicked".
C26_StdinEofFinishes ==
    /\ EndedAtEof => input_task.pc = "finished"
    /\ input_report # "panicked"

\* ----------------------------------------------------------------- C27

Members(seq) == {seq[j] : j \in DOMAIN seq}

Ids(seq) == {seq[j].id : j \in DOMAIN seq}

Settled ==
    IF imap.pc = "parse" THEN SubSeq(deleted, 1, Len(deleted) - 1) ELSE deleted

\* The ids of the items of a sequence that parse, in their order.
GoodIds(seq) ==
    LET good == SelectSeq(seq, LAMBDA item : item.kind = "good")
    IN  [j \in 1..Len(good) |-> good[j].id]

ReadFails == imap.pc = "poll" /\ imap'.failures = imap.failures + 1

\* The connector's reconnect comes to its result in this step.
Reconnects == imap.pc = "reconnect" /\ imap' # imap

C29_PasswordNeverRefreshed ==
    /\ secret_type = "Password"
    /\ imap.pc = "poll"
    /\ imap.last_connect = "auth_failed"
    /\ refreshes = 0

\* ----------------------------------------------------------------- C28

Challenges(tries) == Cardinality({a \in DOMAIN tries : tries[a] = "challenge"})

AllChallenges ==
    LET Sum[j \in 0..Len(smtp.tries)] ==
            IF j = 0 THEN 0 ELSE Sum[j - 1] + Challenges(smtp.tries[j])
    IN  Sum[Len(smtp.tries)]

SinkFailure ==
    /\ output_task.pc = "send"
    /\ Len(smtp'.tries) >= 1
    /\ smtp' # smtp
    /\ ~smtp'.retrying
    /\ LET tries == smtp'.tries[Len(smtp'.tries)]
       IN  tries[Len(tries)] \in {"invalid", "error", "challenge"}

\* The sink's run ends in this step.
SinkEnds == output_task.pc \in Running /\ output_task'.pc \notin Running

\* C30: a message the sink cannot send is dropped alone: nothing is delivered
\* for it, what the output queue holds stays, the sink goes back to its recv
\* and its supervisor does not complete.  The sink's run ends only from its
\* recv, with the queue empty and every sender gone, as disconnected.
C30_SinkFailureDropsOneMessage ==
    /\ [][SinkFailure =>
            /\ output_task'.pc = "recv"
            /\ ~output_task'.joined
            /\ delivered' = delivered
            /\ output_queue' = output_queue]_vars
    /\ [][SinkEnds =>
            /\ output_task.pc = "recv"
            /\ output_queue = <<>>
            /\ NoOutputSender
            /\ output_task'.pc = "disconnected"]_vars
    /\ [](output_task.joined => output_task.pc = "disconnected")

\* The sink gave up its first message and delivered the next.
C30_Witness ==
    /\ Len(smtp.tries) = 2
    /\ smtp.tries[1] \in {<<"invalid">>, <<"error">>}
    /\ smtp.tries[2] = <<"ok">>
    /\ Len(delivered) = 1
    /\ delivered[1].body = 2

\* ----------------------------------------------------------------- C33

\* The registry the configuration asks for: one entry per registered name,
\* with an allow-list and the inbound sender of a worker.
Published ==
    [n \in RegisteredNames |->
        [whitelist |-> WhitelistOf(n), input_sender |-> WorkerOf(n)]]

\* C33: from the first step of the dispatch loop until run() returns the
\* registry is the one load_services built from the configuration, whatever
\* was routed, dropped or denied and whichever worker has exited or
\* panicked.
C33_RegistryFixedInLoop ==
    loop_pc \in {"select", "process"} => services = Published

\* The loop has enqueued a message, denied or dropped another, and a worker
\* has exited or panicked: the registry still holds that worker's entry.
C33_Witness ==
    /\ loop_pc = "select"
    /\ \E j \in DOMAIN log : log[j].event = "processing"
    /\ \E j \in DOMAIN log : log[j].event \in {"removed", "not_allowed", "unknown"}
    /\ \E n \in DOMAIN services : Ended(services[n].input_sender)

\* ----------------------------------------------------------------- C36

\* Worker i was registered under a name that a later registration took.
Shadowed(i) ==
    \E j \in DOMAIN service_configs :
        j > i /\ service_configs[j].name = service_configs[i].name

\* C36: with a name registered twice the last registration wins.  Every
\* message is enqueued on the queue of a worker that no later registration
\* shadows and that is registered under the message's name; a shadowed
\* worker is spawned and holds the output queue open while it runs, but it
\* is enqueued nothing, handles no message and leaves its first recv only
\* with ChannelClosed (or by a panic).
C36_LastRegistrationWins ==
    \A i \in DOMAIN service_task :
        /\ \A j \in DOMAIN enqueued[i] :
              /\ ~Shadowed(i)
              /\ enqueued[i][j].service_name = service_configs[i].name
        /\ Shadowed(i) =>
              /\ enqueued[i] = <<>>
              /\ service_queue[i] = <<>>
              /\ service_task[i].pc \in {"recv", "disconnected", "panicked"}
              /\ service_task[i].pc = "recv" => output_task.pc # "disconnected"
              /\ \A n \in DOMAIN services : services[n].input_sender # i

\* Two workers under one name: the first has seen ChannelClosed on its recv
\* with nothing enqueued, the second has been enqueued a message.
C36_Witness ==
    /\ Len(service_task) = 2
    /\ Shadowed(1)
    /\ service_task[1].pc = "disconnected"
    /\ enqueued[1] = <<>>
    /\ enqueued[2] # <<>>
    /\ loop_pc = "select"

\* ----------------------------------------------------------------- C37

\* The output connector's run returns Ok in this step.
SinkReturnsOk == output_task.pc \in Running /\ output_task'.pc = "finished"

\* C37: the in-memory output connector returns Ok only from the send of a
\* message whose external receiver is gone: that message is not delivered,
\* what the output queue buffers is discarded with the receiver, and the
\* supervisor sees "finished"; while the connector waits in recv, the drop
\* of the external receiver changes nothing of it; and once the external
\* receiver is gone nothing is delivered any more.
C37_SinkDropNoticedOnSend ==
    /\ [][SinkReturnsOk =>
            /\ output_task.pc = "send"
            /\ ~ext_out_alive
            /\ delivered' = delivered
            /\ output_queue' = <<>>]_vars
    /\ [][(ext_out_alive /\ ~ext_out_alive') => output_task' = output_task]_vars
    /\ [][(~ext_out_alive /\ output_task.pc = "recv" /\ output_task'.pc \notin Running) =>
            output_task'.pc \in {"disconnected", "panicked"}]_vars
    /\ [][(~ext_out_alive \/ output_task.pc \notin Running) =>
            delivered' = delivered]_vars

\* The connector has returned Ok after its consumer left: it delivered a
\* first message, and a worker's response that was buffered in the output
\* queue with a third in the connector's hands is gone undelivered.
C37_Witness ==
    /\ output_task.pc = "finished"
    /\ output_task.joined
    /\ ~ext_out_alive
    /\ output_queue = <<>>
    /\ Len(delivered) = 1
    /\ \E i \in DOMAIN enqueued : Len(enqueued[i]) >= 3
    /\ \A i \in DOMAIN service_task :
          service_task[i].pc = "recv" /\ service_queue[i] = <<>>
    /\ loop_pc = "select"
    /\ Len(script) = received

\* ----------------------------------------------------------------- C38

\* Worker i's task ends in this step: its run returns or it panics.
WorkerEnds(i) ==
    /\ service_task[i].pc \in Running
    /\ service_task'[i].pc \in Terminal

\* Where the response to a request may be: in the output queue, in the
\* sink's hands, or sent on by the sink.
Downstream == Bodies(output_queue) \cup Bodies(Held(output_task)) \cup Bodies(delivered)

\* The requests enqueued to worker i after its first.
AfterFirst(i) == {enqueued[i][j] : j \in 2..Len(enqueued[i])}

\* C38: the messages a worker's inbound queue still buffers when the worker
\* exits or panics leave the queue in that step, with no log record and
\* with no response in the output queue; a worker that has ended has an
\* empty queue and a forwarding worker's response enters the output queue
\* only from that worker's own send.  So of the messages enqueued to a
\* worker that answers once and exits, each one reported as "processing",
\* those after the first get no response and no drop warning, ever.
C38_BufferedAtExitNeverHandled ==
    /\ [][\A i \in DOMAIN service_task :
            WorkerEnds(i) =>
                /\ service_queue'[i] = <<>>
                /\ log' = log
                /\ Bodies(service_queue[i]) \cap Bodies(output_queue') = {}]_vars
    /\ [](\A i \in DOMAIN service_task : Ended(i) => service_queue[i] = <<>>)
    /\ [](\A i \in DOMAIN service_task :
            service_configs[i].service = EchoOnce =>
                \A m \in AfterFirst(i) :
                    /\ HasLog("processing", m)
                    /\ ~HasLog("removed", m)
                    /\ m.body \notin Downstream)

\* A worker that answers once was enqueued two messages; it has answered
\* the first and exited, the sink has sent that answer on, and nothing is
\* under way any more.
C38_Witness ==
    /\ \E i \in DOMAIN service_task :
          /\ service_configs[i].service = EchoOnce
          /\ service_task[i].pc = "finished"
          /\ Len(enqueued[i]) = 2
          /\ Bodies(delivered) = {enqueued[i][1].body}
    /\ output_queue = <<>>
    /\ output_task.pc \notin {"send", "panicked"}
    /\ ext_out_alive
    /\ loop_pc \in {"select", "returned"}

\* ----------------------------------------------------------------- C39

\* run() returns in this step.
RunReturns == loop_pc # "returned" /\ loop_pc' = "returned"

\* C39: the step in which run() returns leaves the input connector and every
\* worker as they are, running or not, and empties the input queue, which
\* stays empty from then on.  After it, the input connector is ended by
\* nothing the engine does except its own next send, which reports
\* ChannelClosed: a connector waiting in recv leaves it only with a message
\* to send, with the end of its own source, or by a panic.
C39_InputOutlivesRun ==
    /\ [][RunReturns =>
            /\ input_task' = input_task
            /\ service_task' = service_task
            /\ child_task' = child_task
            /\ input_queue' = <<>>]_vars
    /\ [](loop_pc = "returned" => input_queue = <<>>)
    /\ [][(/\ loop_pc = "returned"
           /\ input_task.pc = "send"
           /\ input_task' # input_task
           /\ input_task'.pc # "panicked")
            => input_task'.pc = "disconnected"]_vars
    /\ [][(/\ loop_pc = "returned"
           /\ input_task.pc = "recv"
           /\ input_task' # input_task
           /\ input_task'.pc # "panicked")
            => \/ input_task'.pc = "send" /\ ext_in_open
               \/ input_task'.pc = "finished" /\ ~ext_in_open]_vars

\* run() has returned with a message of the producer unread; the input
\* connector ran on, took a further message from the producer and found
\* the channel closed when it sent it; a worker is still running.
C39_Witness ==
    /\ loop_pc = "returned"
    /\ input_task.pc = "disconnected"
    /\ Len(script) >= received + 2
    /\ \E i \in DOMAIN service_task : service_task[i].pc \in Running

\* ----------------------------------------------------------------- C34

\* The child tasks that have ended, and the responses of child tasks the
\* sink has sent on.
ChildrenDone == Cardinality({c \in DOMAIN child_task : child_task[c].pc = "done"})

ChildDelivered ==
    Cardinality({j \in DOMAIN delivered :
                    delivered[j].args \in {<<"Terminated">>, <<"error">>}})

\* The sink is gone: its task has ended or its consumer has left.
SinkLost == output_task.pc \notin Running \/ ~ext_out_alive

\* Child c's send completes in this step.
ChildSends(c) ==
    /\ child_task[c].pc = "send"
    /\ child_task'[c] # child_task[c]

\* C34: a worker's end leaves the child tasks it spawned as they are; the
\* output connector's recv reports the closed channel only when every child
\* task has ended; a child's send puts its response on the output queue
\* while the output receiver lives and otherwise changes nothing, and in
\* both cases the child ends with no log record and no task disturbed; and
\* again and again the sink has sent on the response of every child that
\* has ended, unless the sink is gone.
C34_ChildrenOutliveParent ==
    /\ [][\A i \in DOMAIN service_task : WorkerEnds(i) => child_task' = child_task]_vars
    /\ [](output_task.pc = "disconnected" =>
            \A c \in DOMAIN child_task : child_task[c].pc = "done")
    /\ [][\A c \in DOMAIN child_task :
            ChildSends(c) =>
                /\ child_task'[c].pc = "done"
                /\ log' = log
                /\ service_task' = service_task
                /\ output_task' = output_task
                /\ output_queue' = IF output_task.pc \in Running
                                   THEN Append(output_queue, child_task[c].message)
                                   ELSE output_queue]_vars
    /\ []<>(ChildDelivered >= ChildrenDone \/ SinkLost)

\* The Process worker is gone, the child task it had spawned has ended
\* and the sink, still alive, has sent the child's response on.
C34_Witness ==
    /\ service_task # <<>>
    /\ service_task[1].pc = "panicked"
    /\ child_task # <<>>
    /\ child_task[1].pc = "done"
    /\ ChildDelivered = 1
    /\ ~SinkLost

\* A child task has ended after the output connector did: its send found
\* the channel closed and nothing came of it.
C34_SilentEnd ==
    /\ child_task # <<>>
    /\ child_task[1].pc = "done"
    /\ output_task.pc = "panicked"
    /\ ChildDelivered = 0
    /\ output_queue = <<>>

\* ----------------------------------------------------------------- C32

\* The states the supervisor of worker i has logged.
ReportsOf(i) ==
    SelectSeq(service_report, LAMBDA r : r.worker = i)

\* A task unwinds in this step.
TaskPanics ==
    \/ input_task.pc # "panicked" /\ input_task'.pc = "panicked"
    \/ output_task.pc # "panicked" /\ output_task'.pc = "panicked"
    \/ \E i \in DOMAIN service_task :
          service_task[i].pc # "panicked" /\ service_task'[i].pc = "panicked"

\* What the supervisors have logged is how their workers ended.
LoggedAsEnded ==
    /\ (input_report # "") =>
          (input_task.pc \in Terminal /\ input_report = input_task.pc)
    /\ output_task.joined => (output_task.pc \in Terminal)
    /\ \A i \in DOMAIN service_task :
          /\ Len(ReportsOf(i)) <= 1
          /\ \A j \in DOMAIN ReportsOf(i) :
                /\ service_task[i].pc \in Terminal
                /\ ReportsOf(i)[j].state = service_task[i].pc

\* Every worker that has ended, however it ended, has been logged by its
\* supervisor, which has completed.
EveryEndLogged ==
    /\ input_task.pc \in Terminal => input_report = input_task.pc
    /\ output_task.pc \in Terminal => output_task.joined
    /\ \A i \in DOMAIN service_task :
          service_task[i].pc \in Terminal => Len(ReportsOf(i)) = 1

\* C32: a supervisor logs once, after its worker has ended, and what it logs
\* is the worker's outcome: finished for Ok, disconnected for ClosedChannel,
\* panicked for a panic.  Whatever the outcome, the supervisor gets to log it
\* and to complete: again and again every ended worker has been logged.  A panic of a task changes the dispatch loop and the
\* supervisors' logs in nothing, and a supervisor that logs a panic changes
\* only its own log.
C32_SupervisorLogsOutcome ==
    /\ []LoggedAsEnded
    /\ []<>EveryEndLogged
    /\ [][TaskPanics =>
            /\ loop_pc' = loop_pc
            /\ input_report' = input_report
            /\ service_report' = service_report
            /\ output_task'.joined = output_task.joined]_vars
    /\ [][(input_report' # input_report \/ service_report' # service_report) =>
            UNCHANGED engine_vars]_vars

\* The three outcomes, each logged by a supervisor: the EchoOnce finished,
\* the Echo panicked, the output connector found its channel closed, and
\* run() has returned.
C32_Witness ==
    /\ loop_pc = "returned"
    /\ output_task.joined
    /\ output_task.pc = "disconnected"
    /\ input_report # ""
    /\ Len(service_report) = 2
    /\ \E j \in DOMAIN service_report : service_report[j].state = "finished"
    /\ \E j \in DOMAIN service_report : service_report[j].state = "panicked"

\* ----------------------------------------------------------------- C35

\* A request asks for an alarm: its args are a name and minutes, the minutes
\* a non-negative integer in decimal digits, with a plus sign or none.
WellFormed(args) ==
    /\ Len(args) = 2
    /\ LET number == IF args[2] # <<>> /\ Head(args[2]) = "+"
                     THEN Tail(args[2]) ELSE args[2]
       IN  /\ number # <<>>
           /\ \A j \in DOMAIN number : \E v \in 0..9 : Digits[v + 1] = number[j]

\* The response the Alarm owes a request.
Owed(req) ==
    IF WellFormed(req.args)
    THEN [NoMessage EXCEPT !.user = req.user, !.service_name = req.service_name,
                           !.args = <<req.args[1]>>]
    ELSE [NoMessage EXCEPT !.user = req.user, !.service_name = req.service_name,
                           !.args = <<format_error>>, !.body = ExpectedArgsText]

\* The requests the Alarm has taken from its queue, and the responses that
\* have left it or are about to: sent on by the sink, in the sink's hands,
\* in the output queue, in the worker's hands, with a timer task that
\* sleeps or sends.
Taken(i) == SubSeq(enqueued[i], 1, Len(enqueued[i]) - Len(service_queue[i]))

Emitted == delivered \o Held(output_task) \o output_queue

TimersPending ==
    Cardinality({c \in DOMAIN child_task : child_task[c].pc \in {"sleep", "send"}})

\* C35 (as stated): while the sink is alive, every request the Alarm has
\* taken has its one response, the owed one, emitted or under way: the
\* delayed one with args [name] for a name and a non-negative integer of
\* minutes, the immediate format error otherwise.
C35_AlarmAnswersEachRequest ==
    (/\ service_task # <<>>
     /\ ext_out_alive
     /\ output_task.pc \in Running)
        => /\ Len(Taken(1)) =
                 Len(Emitted) + Len(Held(service_task[1])) + TimersPending
           /\ \A j \in DOMAIN Emitted :
                 \E k \in DOMAIN Taken(1) : Emitted[j] = Owed(Taken(1)[k])

\* ----------------------------------------------------------------- C31

\* Handle h's secret() returns in this step, and its refresh() does.
SecretReturns(h) == handler[h].pc = "secret" /\ handler'[h].pc = "idle"
RefreshReturns(h) == handler[h].pc = "refresh" /\ handler'[h].pc = "idle"

\* The handles that hold the guard of the mutex.
Inside == {h \in DOMAIN handler : handler[h].pc \in {"secret", "refresh"}}

\* C31: at most one handle is inside the manager at a time, the one that
\* holds the mutex; a secret() returns the manager's access token as it is
\* and changes neither the token nor the server; the token changes only in
\* the step in which a refresh() returns, to the token the server has just
\* issued, and every secret() that returns later, through any handle,
\* returns the token of the last refresh() that returned.
C31_TokenCachedAndShared ==
    /\ [](/\ Cardinality(Inside) <= 1
           /\ \A h \in DOMAIN handler : h \in Inside <=> manager.locked_by = h)
    /\ [][\A h \in DOMAIN handler :
            SecretReturns(h) =>
                /\ handler'[h].got = manager.access_token
                /\ manager'.access_token = manager.access_token
                /\ token_server' = token_server
                /\ \A g \in DOMAIN handler : g # h => handler'[g] = handler[g]]_vars
    /\ [][manager'.access_token # manager.access_token =>
            /\ \E h \in DOMAIN handler : RefreshReturns(h) /\ manager.locked_by = h
            /\ manager'.access_token = token_server'
            /\ token_server' = token_server + 1]_vars
    /\ [](\A h \in DOMAIN handler : handler[h].got <= manager.access_token)

\* One handle has refreshed twice, and the other, which had read the first
\* token, has read the last one since.
C31_Witness ==
    /\ handler # <<>>
    /\ manager.access_token = 3
    /\ manager.locked_by = 0
    /\ \A h \in DOMAIN handler : handler[h].pc = "idle" /\ handler[h].got = 3

====
